---- MODULE Spec2Model ----
(***************************************************************************)
(* A model of cckb: the vault manifests (IndexManager), the vault          *)
(* integration pass (VaultIntegrator, EntityDetector), the aggregation of  *)
(* partial extraction results (AutoDiscover.mergeSummaries), the           *)
(* extraction parser (CompactionEngine.parseSummary) and the batcher       *)
(* (ChunkManager).                                                         *)
(*                                                                         *)
(* Text.  A document, a name, a link or a description is a sequence of     *)
(* atoms.  An atom is a string standing for a run of characters that no    *)
(* pattern of the source looks inside: every character a regular           *)
(* expression or a string search of the source distinguishes ("|", "\n",   *)
(* " ", "[", "]", "(", ")", the "## " of a section header) is an atom of   *)
(* its own, and the letters of the names the program receives are atoms    *)
(* of their own, so that lower-casing, substring search and replacement    *)
(* are computed on them as the code computes them.  "###" is written       *)
(* "#" followed by "## ", which keeps every occurrence of "## " visible,   *)
(* and a fixed text that follows a "## " starts with an atom for its first *)
(* letter when a name of the model starts with that letter.                *)
(* The texts the program receives hold no "$", which String.replace would  *)
(* expand in a replacement, and no regular-expression operator.            *)
(***************************************************************************)
EXTENDS Integers, Sequences, FiniteSets, TLC

VARIABLES
  vault,      \* the files under the vault root: path -> text
  clock,      \* the number of timestamps taken so far (new Date())
  last,       \* the last operation completed on the vault, with the state before it
  queue,      \* VaultIntegrator.integrate: the detected items still to process
  running,    \* VaultIntegrator.integrate: TRUE from detect() to updateRootIndex()
  pass,       \* the summary of the running / last integration pass and the vault before it
  handed,     \* the unified results handed to VaultIntegrator.integrate, with their path
  merge,      \* AutoDiscover.mergeSummaries: its input and its output
  chunker,    \* ChunkManager: its files, its bound and its chunks
  conv,       \* ConversationManager: the files under conversations and .cckb-state
  hook,       \* a hook process: its handler, its position and what it printed
  disc,       \* AutoDiscover.discover: its position, its summaries and its result
  agent,      \* spawnClaudeAgentWithHandle: the child, the timer, the flags and the promise
  detector,   \* EntityDetector.detect: its summary and the items it returned
  parser      \* parseSummary / parseResponse: the text and the records read from it

vars == <<vault, clock, last, queue, running, pass, handed, merge, chunker, conv, hook, disc,
          agent, detector, parser>>

-----------------------------------------------------------------------------
(* Bounds of the model.                                                    *)

\* the number of manifest operations of one behaviour
MaxOps == 3

\* the number of batches a discovery run analyzes
MaxBatches == 3

\* the number of files handed to a ChunkManager
MaxFiles == 3
\* the number of integration passes of one behaviour
MaxPasses == 2
MaxCalls == 3
MaxSessions == 2
MaxChunks == 2
MaxEntities == 2
MaxServices == 2
MaxParts == 4
LongRotations == 10

-----------------------------------------------------------------------------
(* Text helpers: what String.prototype and the regular expressions do.     *)

NL == "\n"
SP == " "

IsSpace(a) == a \in {" ", "\n", "\t"}

\* s.slice(from - 1) with 1-based from
Drop(s, n) == SubSeq(s, n + 1, Len(s))
Take(s, n) == SubSeq(s, 1, n)

\* s.startsWith(pat, position i) with 1-based i
MatchAt(s, i, pat) ==
  /\ i >= 1
  /\ i + Len(pat) - 1 <= Len(s)
  /\ SubSeq(s, i, i + Len(pat) - 1) = pat

\* s.indexOf(pat, from): the least 1-based position >= from, 0 when there is none
IndexFrom(s, pat, from) ==
  LET hits == { i \in from..(Len(s) - Len(pat) + 1) : MatchAt(s, i, pat) }
  IN IF hits = {} THEN 0 ELSE CHOOSE i \in hits : \A j \in hits : i <= j

\* s.includes(pat)
Includes(s, pat) == IndexFrom(s, pat, 1) # 0

\* s.trim()
RECURSIVE TrimLeft(_)
TrimLeft(s) == IF s # <<>> /\ IsSpace(Head(s)) THEN TrimLeft(Tail(s)) ELSE s

RECURSIVE TrimRight(_)
TrimRight(s) ==
  IF s # <<>> /\ IsSpace(s[Len(s)]) THEN TrimRight(Take(s, Len(s) - 1)) ELSE s

Trim(s) == TrimRight(TrimLeft(s))

\* s.split(sep) for a one-atom separator: the pieces between the separators
RECURSIVE SplitOn(_, _)
SplitOn(s, sep) ==
  LET i == IndexFrom(s, <<sep>>, 1)
  IN IF i = 0 THEN <<s>> ELSE <<Take(s, i - 1)>> \o SplitOn(Drop(s, i), sep)

\* the concatenation of a sequence of texts
RECURSIVE Concat(_)
Concat(ss) == IF ss = <<>> THEN <<>> ELSE Head(ss) \o Concat(Tail(ss))

\* toLowerCase / toUpperCase of one atom
Lower(a) ==
  CASE a = "A" -> "a"
    [] a = "B" -> "b"
    [] a = "S" -> "s"
    [] OTHER -> a

Upper(a) ==
  CASE a = "a" -> "A"
    [] a = "b" -> "B"
    [] a = "s" -> "S"
    [] a = "entities" -> "Entities"
    [] a = "services" -> "Services"
    [] OTHER -> a

ToLowerCase(s) == [i \in 1..Len(s) |-> Lower(s[i])]

-----------------------------------------------------------------------------
(* The file system under the vault root (utils/file-utils.ts).  A path is  *)
(* a sequence of segments, a segment is a text.                            *)

Seg(a) == <<a>>

\* fs.access succeeds
fileExists(v, p) == p \in DOMAIN v

\* readTextFile: the content, or null when the file cannot be read.  Every
\* caller tests the result with "!content", which null and "" both satisfy,
\* so null is read as the empty text.
readTextFile(v, p) == IF p \in DOMAIN v THEN v[p] ELSE <<>>

\* the file system after p holds content
PutFile(v, p, content) ==
  [q \in DOMAIN v \cup {p} |-> IF q = p THEN content ELSE v[q]]

\* the outcomes of one writeTextFile call
Faults == {"none", "before", "truncated", "partial"}

\* writeTextFile: ensureDir, then fs.writeFile, which opens the file itself
\* for writing (truncating it) and writes the content into it.  A failure
\* before the open leaves the file alone; a failure after it leaves the file
\* with what was written so far.
writeTextFile(v, p, content, fault) ==
  CASE fault = "none" -> PutFile(v, p, content)
    [] fault = "before" -> v
    [] fault = "truncated" -> PutFile(v, p, <<>>)
    [] fault = "partial" -> PutFile(v, p, Take(content, Len(content) \div 2))

\* appendToFile: fs.appendFile creates the file when it is missing
appendToFile(v, p, content) == PutFile(v, p, readTextFile(v, p) \o content)

\* new Date().toISOString() of the n-th timestamp taken
Timestamp(n) == ToString(n)

-----------------------------------------------------------------------------
(* IndexManager (core/index-manager.ts).                                   *)

IndexPath(rel) == rel \o <<Seg("INDEX.md")>>

TableHeader ==
  <<"|", " ", "Item", " ", "|", " ", "Description", " ", "|", NL,
    "|", "------", "|", "-------------", "|", NL>>

TableRow(entry) ==
  <<"|", " ", "[">> \o entry.name \o <<"]", "(">> \o entry.path \o
  <<")", " ", "|", " ">> \o entry.description \o <<" ", "|", NL>>

\* buildTable
buildTable(entries) ==
  IF Len(entries) = 0
  THEN TableHeader \o <<NL, "_No entries yet._">>
  ELSE TableHeader \o Concat([i \in 1..Len(entries) |-> TableRow(entries[i])])

\* content.match(/\|[\s\S]*?\|/g): from a "|" to the next "|", then on from
\* the atom after it
RECURSIVE PipeMatches(_)
PipeMatches(s) ==
  LET i == IndexFrom(s, <<"|">>, 1)
      j == IF i = 0 THEN 0 ELSE IndexFrom(s, <<"|">>, i + 1)
  IN IF j = 0 THEN <<>> ELSE <<SubSeq(s, i, j)>> \o PipeMatches(Drop(s, j))

NonBlank(c) == Trim(c) # <<>>

\* row.split("|").filter((c) => c.trim()).map((c) => c.trim())
Cells(row) ==
  LET kept == SelectSeq(SplitOn(row, "|"), NonBlank)
  IN [i \in 1..Len(kept) |-> Trim(kept[i])]

\* cell.match(/\[([^\]]+)\]\(([^)]+)\)/): the leftmost "[name](path)"
LinkMatch(cell) ==
  LET Close(i) == IndexFrom(cell, <<"]">>, i + 1)
      Paren(i) == IndexFrom(cell, <<")">>, Close(i) + 2)
      ok(i) == /\ cell[i] = "["
               /\ Close(i) > i + 1
               /\ MatchAt(cell, Close(i) + 1, <<"(">>)
               /\ Paren(i) > Close(i) + 2
      hits == { i \in 1..Len(cell) : ok(i) }
      at == CHOOSE i \in hits : \A j \in hits : i <= j
  IN IF hits = {}
     THEN [found |-> FALSE, name |-> <<>>, path |-> <<>>]
     ELSE [found |-> TRUE,
           name |-> SubSeq(cell, at + 1, Close(at) - 1),
           path |-> SubSeq(cell, Close(at) + 2, Paren(at) - 1)]

\* linkPath.includes("/")
HasSlash(path) == \E i \in 1..Len(path) : path[i] \in {"/", "./", "/INDEX.md"}

\* the entry parseIndex pushes for a row of at least two cells
RowEntry(cells) ==
  LET m == LinkMatch(cells[1])
      linkPath == IF m.found THEN m.path ELSE <<>>
  IN [name |-> IF m.found THEN m.name ELSE cells[1],
      path |-> linkPath,
      description |-> cells[Len(cells)],
      type |-> IF HasSlash(linkPath) THEN "folder" ELSE "file"]

\* parseIndex
parseIndex(content) ==
  LET tableMatch == PipeMatches(content)
      dataRows == Drop(tableMatch, 2)
      cellsOf == [i \in 1..Len(dataRows) |-> Cells(dataRows[i])]
      TwoCells(c) == Len(c) >= 2
      rows == SelectSeq(cellsOf, TwoCells)
  IN [i \in 1..Len(rows) |-> RowEntry(rows[i])]

\* mergedMap.set(entry.name, entry): a Map keeps the place of a key it has
RECURSIVE MapSetAll(_, _)
MapSetAll(m, entries) ==
  IF entries = <<>> THEN m
  ELSE LET e == Head(entries)
           at == { i \in 1..Len(m) : m[i].name = e.name }
           m2 == IF at = {} THEN Append(m, e)
                 ELSE [i \in 1..Len(m) |-> IF i \in at THEN e ELSE m[i]]
       IN MapSetAll(m2, Tail(entries))

\* /## (?:Contents|Entity List)\n\n\|[\s\S]*?(?=\n\n|$)/: the first place
\* the header, a blank line and a "|" stand, up to the first blank line
\* after it or the end of the text.  from = 0 when there is no match.
TableRegion(s) ==
  LET Header(i) == \/ MatchAt(s, i, <<"## ", "Contents", NL, NL, "|">>)
                   \/ MatchAt(s, i, <<"## ", "Entity List", NL, NL, "|">>)
      hits == { i \in 1..Len(s) : Header(i) }
      from == CHOOSE i \in hits : \A j \in hits : i <= j
      blank == IndexFrom(s, <<NL, NL>>, from + 5)
  IN IF hits = {} THEN [from |-> 0, to |-> 0]
     ELSE [from |-> from, to |-> IF blank = 0 THEN Len(s) ELSE blank - 1]

UpperFirst(s) == IF s = <<>> THEN s ELSE <<Upper(Head(s))>> \o Tail(s)

\* createIndex: the rendered manifest
IndexContent(rel, entries, title, now) ==
  LET base == IF rel = <<>> THEN <<>> ELSE rel[Len(rel)]
      folderName == IF base = <<>> THEN <<"Vault">> ELSE base
      displayTitle == IF title # <<>> THEN title ELSE UpperFirst(folderName)
  IN <<"# ">> \o displayTitle \o <<NL, NL, "## ", "Contents", NL, NL>> \o
     buildTable(entries) \o
     <<NL, NL, "_Last updated: ", Timestamp(now), "_", NL>>

createIndex(v, rel, entries, title, now, fault) ==
  writeTextFile(v, IndexPath(rel), IndexContent(rel, entries, title, now), fault)

\* updateIndex of an existing manifest: the rewritten content
\* (newTable is buildTable of mergedEntries, the Map of existingEntries, the
\* entries parseIndex reads, with the new entries set after them)
UpdatedContent(existingContent, entries) ==
  LET r == TableRegion(existingContent)
  IN IF r.from = 0 THEN existingContent
     ELSE Take(existingContent, r.from - 1) \o
          <<"## ", "Contents", NL, NL>> \o
          buildTable(MapSetAll(MapSetAll(<<>>, parseIndex(existingContent)), entries)) \o
          Drop(existingContent, r.to)

updateIndex(v, rel, entries, now, fault) ==
  LET existingContent == readTextFile(v, IndexPath(rel))
  IN IF existingContent = <<>>
     THEN createIndex(v, rel, entries, <<>>, now, fault)
     ELSE writeTextFile(v, IndexPath(rel),
                        UpdatedContent(existingContent, entries), fault)

addEntry(v, rel, entry, now, fault) == updateIndex(v, rel, <<entry>>, now, fault)

\* ensureEntityFolder: the entity's manifest when it is missing, then the
\* entity's row in entities/INDEX.md
ensureEntityFolder(v, entityName, now) ==
  LET entityPath == <<Seg("entities"), entityName>>
      v1 == IF fileExists(v, IndexPath(entityPath)) THEN v
            ELSE createIndex(v, entityPath, <<>>, entityName, now, "none")
  IN addEntry(v1, <<Seg("entities")>>,
              [name |-> entityName,
               path |-> <<"./">> \o entityName \o <<"/INDEX.md">>,
               description |-> <<"Documentation for ">> \o entityName \o <<" entity">>,
               type |-> "folder"],
              now, "none")


-----------------------------------------------------------------------------
(* EntityDetector (core/entity-detector.ts).  A record of a summary holds  *)
(* texts; a location that is undefined is the empty text, which every use  *)
(* of it treats as undefined.                                              *)

\* s.replace(pat, by) for a string pattern: the first occurrence
ReplaceFirst(s, pat, by) ==
  LET i == IndexFrom(s, pat, 1)
  IN IF i = 0 THEN s ELSE Take(s, i - 1) \o by \o Drop(s, i + Len(pat) - 1)

\* lines.map((x) => `- ${x}`).join("\n")
RECURSIVE BulletJoin(_)
BulletJoin(xs) ==
  IF xs = <<>> THEN <<>>
  ELSE <<"- ">> \o Head(xs) \o (IF Len(xs) > 1 THEN <<NL>> ELSE <<>>) \o BulletJoin(Tail(xs))

\* for (const x of xs) content += `- ${x}\n`
BulletLines(xs) == Concat([i \in 1..Len(xs) |-> <<"- ">> \o xs[i] \o <<NL>>])

formatEntityContent(entity) ==
  <<"# ">> \o entity.name \o <<NL, NL>> \o
  (IF entity.location # <<>>
   THEN <<"**Location**: ">> \o entity.location \o <<NL, NL>> ELSE <<>>) \o
  (IF Len(entity.attributes) > 0
   THEN <<"## ", "Attributes", NL, NL>> \o BulletLines(entity.attributes) \o <<NL>>
   ELSE <<>>) \o
  (IF Len(entity.relations) > 0
   THEN <<"## ", "Relations", NL, NL>> \o BulletLines(entity.relations) \o <<NL>>
   ELSE <<>>)

formatServiceContent(service) ==
  <<"# ">> \o service.name \o <<NL, NL>> \o
  (IF service.location # <<>>
   THEN <<"**Location**: ">> \o service.location \o <<NL, NL>> ELSE <<>>) \o
  (IF service.purpose # <<>>
   THEN <<"## ", "Purpose", NL, NL>> \o service.purpose \o <<NL, NL>> ELSE <<>>) \o
  (IF Len(service.methods) > 0
   THEN <<"## ", "Methods", NL, NL>> \o BulletLines(service.methods) \o <<NL>>
   ELSE <<>>)

createEntityItem(entity) ==
  [type |-> "entity", name |-> entity.name, data |-> entity,
   vaultPath |-> <<"entities", "/">> \o ToLowerCase(entity.name),
   content |-> formatEntityContent(entity)]

\* createServiceItem with the name of the file not replaced when it is empty
createServiceItemUnnamed(entityName, service) ==
  LET serviceName ==
        Trim(ReplaceFirst(ToLowerCase(service.name), ToLowerCase(entityName), <<>>))
  IN [type |-> "service", name |-> service.name, data |-> service,
      vaultPath |-> <<"entities", "/">> \o ToLowerCase(entityName) \o
                    <<"/", "services", "/">> \o serviceName,
      content |-> formatServiceContent(service)]

createServiceItem(entityName, service) ==
  LET serviceName ==
        Trim(ReplaceFirst(ToLowerCase(service.name), ToLowerCase(entityName), <<>>))
      fileName == IF serviceName # <<>> THEN serviceName ELSE <<"service">>
  IN [type |-> "service", name |-> service.name, data |-> service,
      vaultPath |-> <<"entities", "/">> \o ToLowerCase(entityName) \o
                    <<"/", "services", "/">> \o fileName,
      content |-> formatServiceContent(service)]

createStandaloneServiceItem(service) ==
  [type |-> "service", name |-> service.name, data |-> service,
   vaultPath |-> <<"services", "/">> \o ToLowerCase(service.name),
   content |-> formatServiceContent(service)]

createArchitectureItem(arch) ==
  [type |-> "pattern", name |-> arch.pattern, data |-> arch,
   vaultPath |-> <<"architecture">>,
   content |-> <<"## ">> \o arch.pattern \o <<NL, NL>> \o arch.description \o
               <<NL, NL, "#", "## ", "A", "ffected Files", NL>> \o
               BulletJoin(arch.affectedFiles) \o <<NL>>]

createKnowledgeItem(knowledge) ==
  [type |-> "knowledge", name |-> knowledge.topic, data |-> knowledge,
   vaultPath |-> <<"general-knowledge">>,
   content |-> <<"## ">> \o knowledge.topic \o <<NL, NL>> \o knowledge.details \o <<NL>>]

\* the service's name or location contains the entity's name, ignoring case
Related(entity, service) ==
  \/ Includes(ToLowerCase(service.name), ToLowerCase(entity.name))
  \/ /\ service.location # <<>>
     /\ Includes(ToLowerCase(service.location), ToLowerCase(entity.name))

\* detect
detect(summary) ==
  LET EntityItems(entity) ==
        LET rel(s) == Related(entity, s)
            relatedServices == SelectSeq(summary.services, rel)
        IN <<createEntityItem(entity)>> \o
           [i \in 1..Len(relatedServices) |->
              createServiceItem(entity.name, relatedServices[i])]
      processedServiceNames ==
        { summary.services[j].name : j \in
            { j \in 1..Len(summary.services) :
                \E i \in 1..Len(summary.entities) :
                  Related(summary.entities[i], summary.services[j]) } }
      unprocessed(s) == s.name \notin processedServiceNames
      standalone == SelectSeq(summary.services, unprocessed)
  IN Concat([i \in 1..Len(summary.entities) |-> EntityItems(summary.entities[i])]) \o
     [i \in 1..Len(standalone) |-> createStandaloneServiceItem(standalone[i])] \o
     [i \in 1..Len(summary.architecture) |->
        createArchitectureItem(summary.architecture[i])] \o
     [i \in 1..Len(summary.knowledge) |-> createKnowledgeItem(summary.knowledge[i])]

-----------------------------------------------------------------------------
(* VaultIntegrator (core/vault-integrator.ts).                             *)

\* processEntity
processEntity(v, item, now) ==
  LET entityPath == <<Seg("entities"), item.name>>
  IN addEntry(writeTextFile(ensureEntityFolder(v, item.name, now),
                            entityPath \o <<Seg("attributes.md")>>, item.content, "none"),
              entityPath,
              [name |-> <<"attributes">>,
               path |-> <<"./", "attributes.md">>,
               description |-> <<"Attributes of ">> \o item.name,
               type |-> "file"],
              now, "none")

\* folderPath.startsWith("entities/") && folderPath.includes("/services")
IsEntityServiceFolder(folderText) ==
  /\ MatchAt(folderText, 1, <<"entities", "/">>)
  /\ Includes(folderText, <<"/", "services">>)

\* parts.join("/")
RECURSIVE JoinSlash(_)
JoinSlash(parts) ==
  IF parts = <<>> THEN <<>>
  ELSE Head(parts) \o (IF Len(parts) > 1 THEN <<"/">> ELSE <<>>) \o JoinSlash(Tail(parts))

\* processService: the row of the services folder in the manifest of its entity
addServicesEntry(v, folder, folderPath, now) ==
  IF IsEntityServiceFolder(folderPath)
  THEN addEntry(v, Take(folder, 2),
                [name |-> <<"services">>,
                 path |-> <<"./", "services", "/INDEX.md">>,
                 description |-> <<"Service layer documentation">>,
                 type |-> "folder"],
                now, "none")
  ELSE v

\* processService
processService(v, item, now) ==
  LET pathParts == SplitOn(item.vaultPath, "/")
      fileName == pathParts[Len(pathParts)] \o <<".md">>
      folder == Take(pathParts, Len(pathParts) - 1)
      folderPath == JoinSlash(folder)
      v1 == writeTextFile(v, folder \o <<fileName>>, item.content, "none")
      v2 == IF fileExists(v1, IndexPath(folder)) THEN v1
            ELSE createIndex(v1, folder, <<>>, <<>>, now, "none")
      v3 == addEntry(v2, folder,
                     [name |-> item.name,
                      path |-> <<"./">> \o fileName,
                      description |-> IF item.data.purpose # <<>>
                                      THEN item.data.purpose
                                      ELSE item.name \o <<" service">>,
                      type |-> "file"],
                     now, "none")
  IN addServicesEntry(v3, folder, folderPath, now)

\* new RegExp(`## ${name}[\s\S]*?(?=\n## |$)`): the first place "## name"
\* stands, up to the next line that starts with "## " or the end
SectionRegion(existing, name) ==
  LET from == IndexFrom(existing, <<"## ">> \o name, 1)
      next == IndexFrom(existing, <<NL, "## ">>, from + 1 + Len(name))
  IN [from |-> from, to |-> IF next = 0 THEN Len(existing) ELSE next - 1]

\* processPattern and processKnowledge on their document
upsertSection(v, doc, title, item) ==
  LET existing == readTextFile(v, doc)
      r == SectionRegion(existing, item.name)
  IN IF existing = <<>>
     THEN writeTextFile(v, doc, <<"# ", title, NL, NL>> \o item.content, "none")
     ELSE IF Includes(existing, <<"## ">> \o item.name)
          THEN writeTextFile(v, doc,
                 Take(existing, r.from - 1) \o item.content \o Drop(existing, r.to),
                 "none")
          ELSE appendToFile(v, doc, <<NL>> \o item.content)

ArchitectureDoc == <<Seg("architecture.md")>>
KnowledgeDoc == <<Seg("general-knowledge.md")>>

processPattern(v, item) == upsertSection(v, ArchitectureDoc, "Architecture", item)

processKnowledge(v, item) == upsertSection(v, KnowledgeDoc, "General Knowledge", item)

RootIndex == <<Seg("INDEX.md")>>

\* updateRootIndex writing the header and the timestamp in place of the
\* whole manifest
updateRootIndexWhole(v, now) ==
  LET content == readTextFile(v, RootIndex)
  IN IF content = <<>> THEN v
     ELSE writeTextFile(v, RootIndex, <<"## ", "Last Updated", NL, NL, Timestamp(now)>>, "none")

\* updateRootIndex: /## Last Updated[\s\S]*$/ is replaced by the header and
\* the timestamp
updateRootIndex(v, now) ==
  LET content == readTextFile(v, RootIndex)
      i == IndexFrom(content, <<"## ", "Last Updated">>, 1)
  IN IF content = <<>> THEN v
     ELSE writeTextFile(v, RootIndex,
            IF i = 0 THEN content
            ELSE Take(content, i - 1) \o <<"## ", "Last Updated", NL, NL, Timestamp(now)>>,
            "none")

-----------------------------------------------------------------------------
(* The extraction parser: CompactionEngine.parseSummary                    *)
(* (core/compaction-engine.ts) and AutoDiscover.parseResponse              *)
(* (cli/discover.ts), each with its own methods.  The sessionId and the    *)
(* content of a Summary are left out: no operation of the model reads them.*)

\* the end of the line that holds position k
LineEnd(s, k) ==
  LET nl == IndexFrom(s, <<NL>>, k)
  IN IF nl = 0 THEN Len(s) ELSE nl - 1

\* the capture of /label\s*(.+)/ for the label at position i: \s* takes the
\* white space after the label, newlines included, and (.+) the rest of the
\* line it stops in; when only white space follows, \s* gives back up to
\* the last blank that is no newline, which (.+) takes
CaptureAt(s, i) ==
  LET solid == { k \in (i + 1)..Len(s) : ~IsSpace(s[k]) }
      k == CHOOSE x \in solid : \A y \in solid : x <= y
      blanks == { q \in (i + 1)..Len(s) : s[q] \in {" ", "\t"} }
      q == CHOOSE x \in blanks : \A y \in blanks : x >= y
  IN IF solid # {} THEN [found |-> TRUE, text |-> SubSeq(s, k, LineEnd(s, k))]
     ELSE IF blanks # {} THEN [found |-> TRUE, text |-> <<s[q]>>]
     ELSE [found |-> FALSE, text |-> <<>>]

\* block.match(/label\s*(.+)/): the first label the pattern matches at
FieldMatch(block, label) ==
  LET hits == { i \in 1..Len(block) : block[i] = label /\ CaptureAt(block, i).found }
      i == CHOOSE x \in hits : \A y \in hits : x <= y
  IN IF hits = {} THEN [found |-> FALSE, text |-> <<>>] ELSE CaptureAt(block, i)

\* match?.[1].trim(), with "" when there is no match
FieldText(block, label) == Trim(FieldMatch(block, label).text)

\* match?.[1].split(",").map((x) => x.trim()) || []
FieldList(block, label) ==
  LET m == FieldMatch(block, label)
      parts == SplitOn(m.text, ",")
  IN IF m.found THEN [i \in 1..Len(parts) |-> Trim(parts[i])] ELSE <<>>

\* section.split(/\n(?=- label)/)
RECURSIVE SplitBlocks(_, _)
SplitBlocks(section, label) ==
  LET i == IndexFrom(section, <<NL, "- ", label>>, 1)
  IN IF i = 0 THEN <<section>>
     ELSE <<Take(section, i - 1)>> \o SplitBlocks(Drop(section, i), label)

\* the blocks of a section that are not blank and hold their primary field
NamedBlocks(section, label) ==
  LET keep(b) == Trim(b) # <<>> /\ FieldMatch(b, label).found
  IN SelectSeq(SplitBlocks(section, label), keep)

parseEntities(section) ==
  LET blocks == NamedBlocks(section, "**Name**:")
  IN [i \in 1..Len(blocks) |->
        [name |-> FieldText(blocks[i], "**Name**:"),
         location |-> FieldText(blocks[i], "**Location**:"),
         attributes |-> FieldList(blocks[i], "**Attributes**:"),
         relations |-> FieldList(blocks[i], "**Relations**:")]]

parseArchitecture(section) ==
  LET blocks == NamedBlocks(section, "**Pattern**:")
  IN [i \in 1..Len(blocks) |->
        [pattern |-> FieldText(blocks[i], "**Pattern**:"),
         description |-> FieldText(blocks[i], "**Description**:"),
         affectedFiles |-> FieldList(blocks[i], "**Affected Files**:")]]

parseServices(section) ==
  LET blocks == NamedBlocks(section, "**Name**:")
  IN [i \in 1..Len(blocks) |->
        [name |-> FieldText(blocks[i], "**Name**:"),
         location |-> FieldText(blocks[i], "**Location**:"),
         purpose |-> FieldText(blocks[i], "**Purpose**:"),
         methods |-> FieldList(blocks[i], "**Methods**:")]]

parseKnowledge(section) ==
  LET blocks == NamedBlocks(section, "**Topic**:")
  IN [i \in 1..Len(blocks) |->
        [topic |-> FieldText(blocks[i], "**Topic**:"),
         details |-> FieldText(blocks[i], "**Details**:")]]

\* content.match(/## Title\n([\s\S]*?)(?=\n## |$)/): the text after the
\* header line up to the next line that starts with "## " or the end
SectionMatch(content, title) ==
  LET i == IndexFrom(content, <<"## ", title, NL>>, 1)
      next == IndexFrom(content, <<NL, "## ">>, i + 3)
  IN IF i = 0 THEN [found |-> FALSE, text |-> <<>>]
     ELSE [found |-> TRUE,
           text |-> SubSeq(content, i + 3, IF next = 0 THEN Len(content) ELSE next - 1)]

\* parseSummary
parseSummary(content) ==
  LET e == SectionMatch(content, "Entities")
      a == SectionMatch(content, "Architecture")
      sv == SectionMatch(content, "Services")
      k == SectionMatch(content, "Knowledge")
  IN [entities |-> IF e.found THEN parseEntities(e.text) ELSE <<>>,
      architecture |-> IF a.found THEN parseArchitecture(a.text) ELSE <<>>,
      services |-> IF sv.found THEN parseServices(sv.text) ELSE <<>>,
      knowledge |-> IF k.found THEN parseKnowledge(k.text) ELSE <<>>]

\* AutoDiscover (cli/discover.ts) has its own parser, written out here as
\* the loops of the code: for (const block of blocks), a blank block
\* skipped, a record pushed when the primary field matched.

\* AutoDiscover.parseEntities: the loop over the blocks
RECURSIVE discoverEntities(_, _)
discoverEntities(blocks, entities) ==
  IF blocks = <<>> THEN entities
  ELSE LET block == Head(blocks)
           nameMatch == FieldMatch(block, "**Name**:")
       IN IF Trim(block) = <<>> \/ ~nameMatch.found
          THEN discoverEntities(Tail(blocks), entities)
          ELSE discoverEntities(Tail(blocks),
                 Append(entities,
                        [name |-> Trim(nameMatch.text),
                         location |-> FieldText(block, "**Location**:"),
                         attributes |-> FieldList(block, "**Attributes**:"),
                         relations |-> FieldList(block, "**Relations**:")]))

\* AutoDiscover.parseArchitecture: the loop over the blocks
RECURSIVE discoverArchitecture(_, _)
discoverArchitecture(blocks, items) ==
  IF blocks = <<>> THEN items
  ELSE LET block == Head(blocks)
           patternMatch == FieldMatch(block, "**Pattern**:")
       IN IF Trim(block) = <<>> \/ ~patternMatch.found
          THEN discoverArchitecture(Tail(blocks), items)
          ELSE discoverArchitecture(Tail(blocks),
                 Append(items,
                        [pattern |-> Trim(patternMatch.text),
                         description |-> FieldText(block, "**Description**:"),
                         affectedFiles |-> FieldList(block, "**Affected Files**:")]))

\* AutoDiscover.parseServices: the loop over the blocks
RECURSIVE discoverServices(_, _)
discoverServices(blocks, items) ==
  IF blocks = <<>> THEN items
  ELSE LET block == Head(blocks)
           nameMatch == FieldMatch(block, "**Name**:")
       IN IF Trim(block) = <<>> \/ ~nameMatch.found
          THEN discoverServices(Tail(blocks), items)
          ELSE discoverServices(Tail(blocks),
                 Append(items,
                        [name |-> Trim(nameMatch.text),
                         location |-> FieldText(block, "**Location**:"),
                         purpose |-> FieldText(block, "**Purpose**:"),
                         methods |-> FieldList(block, "**Methods**:")]))

\* AutoDiscover.parseKnowledge: the loop over the blocks
RECURSIVE discoverKnowledge(_, _)
discoverKnowledge(blocks, items) ==
  IF blocks = <<>> THEN items
  ELSE LET block == Head(blocks)
           topicMatch == FieldMatch(block, "**Topic**:")
       IN IF Trim(block) = <<>> \/ ~topicMatch.found
          THEN discoverKnowledge(Tail(blocks), items)
          ELSE discoverKnowledge(Tail(blocks),
                 Append(items,
                        [topic |-> Trim(topicMatch.text),
                         details |-> FieldText(block, "**Details**:")]))

\* parseResponse with the services read in the section of the entities
parseResponseOneSection(response) ==
  LET entitiesMatch == SectionMatch(response, "Entities")
      archMatch == SectionMatch(response, "Architecture")
      knowledgeMatch == SectionMatch(response, "Knowledge")
  IN [entities |-> IF entitiesMatch.found
                   THEN discoverEntities(SplitBlocks(entitiesMatch.text, "**Name**:"), <<>>)
                   ELSE <<>>,
      architecture |-> IF archMatch.found
                       THEN discoverArchitecture(SplitBlocks(archMatch.text, "**Pattern**:"), <<>>)
                       ELSE <<>>,
      services |-> IF entitiesMatch.found
                   THEN discoverServices(SplitBlocks(entitiesMatch.text, "**Name**:"), <<>>)
                   ELSE <<>>,
      knowledge |-> IF knowledgeMatch.found
                    THEN discoverKnowledge(SplitBlocks(knowledgeMatch.text, "**Topic**:"), <<>>)
                    ELSE <<>>]

\* AutoDiscover.parseResponse
parseResponse(response) ==
  LET entitiesMatch == SectionMatch(response, "Entities")
      archMatch == SectionMatch(response, "Architecture")
      servicesMatch == SectionMatch(response, "Services")
      knowledgeMatch == SectionMatch(response, "Knowledge")
  IN [entities |-> IF entitiesMatch.found
                   THEN discoverEntities(SplitBlocks(entitiesMatch.text, "**Name**:"), <<>>)
                   ELSE <<>>,
      architecture |-> IF archMatch.found
                       THEN discoverArchitecture(SplitBlocks(archMatch.text, "**Pattern**:"), <<>>)
                       ELSE <<>>,
      services |-> IF servicesMatch.found
                   THEN discoverServices(SplitBlocks(servicesMatch.text, "**Name**:"), <<>>)
                   ELSE <<>>,
      knowledge |-> IF knowledgeMatch.found
                    THEN discoverKnowledge(SplitBlocks(knowledgeMatch.text, "**Topic**:"), <<>>)
                    ELSE <<>>]

-----------------------------------------------------------------------------
(* The aggregator: AutoDiscover.mergeSummaries (cli/discover.ts).          *)

\* the key of a record of a category
RecordKey(category, r) ==
  CASE category = "entities" -> ToLowerCase(r.name)
    [] category = "architecture" -> ToLowerCase(r.pattern)
    [] category = "services" -> ToLowerCase(r.name)
    [] category = "knowledge" -> ToLowerCase(r.topic)

\* if (!map.has(key)) map.set(key, record), record after record;
\* Array.from(map.values()) lists the records in the order they were set
RECURSIVE SetIfAbsent(_, _, _)
SetIfAbsent(kept, records, category) ==
  IF records = <<>> THEN kept
  ELSE LET r == Head(records)
           has == \E i \in 1..Len(kept) :
                    RecordKey(category, kept[i]) = RecordKey(category, r)
       IN SetIfAbsent(IF has THEN kept ELSE Append(kept, r), Tail(records), category)

\* map.set(key, record) whatever the map holds: the last record of a key
\* takes the place of the first
RECURSIVE SetAlways(_, _, _)
SetAlways(kept, records, category) ==
  IF records = <<>> THEN kept
  ELSE LET r == Head(records)
           at == { i \in 1..Len(kept) :
                     RecordKey(category, kept[i]) = RecordKey(category, r) }
       IN SetAlways(IF at = {} THEN Append(kept, r)
                    ELSE [i \in 1..Len(kept) |-> IF i \in at THEN r ELSE kept[i]],
                    Tail(records), category)

\* the records of a category over the summaries, in order
AllRecords(summaries, category) ==
  Concat([i \in 1..Len(summaries) |-> summaries[i][category]])

\* mergeSummaries without its map.has test: the last record of a key is kept
mergeSummariesLastWins(summaries) ==
  [entities |-> SetAlways(<<>>, AllRecords(summaries, "entities"), "entities"),
   architecture |-> SetAlways(<<>>, AllRecords(summaries, "architecture"), "architecture"),
   services |-> SetAlways(<<>>, AllRecords(summaries, "services"), "services"),
   knowledge |-> SetAlways(<<>>, AllRecords(summaries, "knowledge"), "knowledge")]

\* mergeSummaries
mergeSummaries(summaries) ==
  [entities |-> SetIfAbsent(<<>>, AllRecords(summaries, "entities"), "entities"),
   architecture |-> SetIfAbsent(<<>>, AllRecords(summaries, "architecture"), "architecture"),
   services |-> SetIfAbsent(<<>>, AllRecords(summaries, "services"), "services"),
   knowledge |-> SetIfAbsent(<<>>, AllRecords(summaries, "knowledge"), "knowledge")]

-----------------------------------------------------------------------------
(* The vault before any pass: the root manifest of the installer's         *)
(* template (templates/vault/INDEX.md).                                    *)

RootTemplate ==
  <<"# ", "Project Knowledge Base", NL, NL,
    "This vault contains structured knowledge about the project, automatically captured and organized by CCKB.",
    NL, NL,
    "## ", "Contents", NL, NL,
    "|", " ", "Section", " ", "|", " ", "Description", " ", "|", NL,
    "|", "---------", "|", "-------------", "|", NL,
    "|", " ", "[", "architecture.md", "]", "(", "./", "architecture.md", ")", " ",
    "|", " ", "Project patterns and architectural decisions", " ", "|", NL,
    "|", " ", "[", "general-knowledge.md", "]", "(", "./", "general-knowledge.md", ")", " ",
    "|", " ", "Conventions, rules, and miscellaneous knowledge", " ", "|", NL,
    "|", " ", "[", "entities/", "]", "(", "./", "entities", "/INDEX.md", ")", " ",
    "|", " ", "Domain entities and their documentation", " ", "|", NL, NL,
    "## ", "Usage", NL, NL,
    "This knowledge base is automatically maintained. Claude will consult it when making decisions about the project.",
    NL, NL,
    "## ", "Last Updated", NL, NL,
    "_Will be updated automatically_", NL>>

InitialVault == [p \in {RootIndex} |-> RootTemplate]

NoOp == [op |-> "none"]

\* a vault root that holds no file yet
EmptyVault == [p \in {} |-> <<>>]

VaultIdle ==
  /\ clock = 0
  /\ last = NoOp
  /\ queue = <<>>
  /\ running = FALSE
  /\ pass = [n |-> 0]
  /\ handed = <<>>

MergeIdle == merge = [state |-> "idle"]

ChunkerIdle == chunker = [state |-> "idle"]

ConvIdle == conv = [state |-> "idle"]

HookIdle == hook = [state |-> "idle"]

DiscIdle == disc = [state |-> "idle"]

AgentIdle == agent = [state |-> "idle"]

DetectorIdle == detector = [state |-> "idle"]

ParserIdle == parser = [state |-> "idle"]

\* the gateway, the classifier and the parser left out
RestIdle == AgentIdle /\ DetectorIdle /\ ParserIdle

\* the parts of the program a specification leaves out stay as they are
OthersIdle == ConvIdle /\ HookIdle /\ DiscIdle /\ RestIdle

-----------------------------------------------------------------------------
(* The manifest operations of IndexManager, called on the entities folder. *)

EntitiesFolder == <<Seg("entities")>>

EntryA ==
  [name |-> <<"A">>, path |-> <<"./", "A", ".md">>,
   description |-> <<"one">>, type |-> "file"]

\* the name of EntryA with another link and another description
EntryA2 ==
  [name |-> <<"A">>, path |-> <<"./", "A", "/INDEX.md">>,
   description |-> <<"two">>, type |-> "folder"]

EntryB ==
  [name |-> <<"B">>, path |-> <<"./", "B", ".md">>,
   description |-> <<"b", " ", "c">>, type |-> "file"]

Entries == {EntryA, EntryA2, EntryB}

\* the lists updateIndex is called with besides addEntry's one-entry lists
EntryLists == {<<>>} \cup { <<a, b>> : a \in Entries, b \in Entries }

EntityNames == {<<"A">>, <<"B">>}

UpdateIndex(rel, entries, fault) ==
  /\ clock < MaxOps
  /\ vault' = updateIndex(vault, rel, entries, clock + 1, fault)
  /\ clock' = clock + 1
  /\ last' = [op |-> "updateIndex", rel |-> rel, entries |-> entries,
              fault |-> fault, before |-> vault]
  /\ UNCHANGED <<queue, running, pass, handed, merge, chunker, conv, hook, disc, agent, detector, parser>>

AddEntry(rel, entry, fault) ==
  /\ clock < MaxOps
  /\ vault' = addEntry(vault, rel, entry, clock + 1, fault)
  /\ clock' = clock + 1
  /\ last' = [op |-> "updateIndex", rel |-> rel, entries |-> <<entry>>,
              fault |-> fault, before |-> vault]
  /\ UNCHANGED <<queue, running, pass, handed, merge, chunker, conv, hook, disc, agent, detector, parser>>

EnsureEntityFolder(entityName) ==
  /\ clock < MaxOps
  /\ vault' = ensureEntityFolder(vault, entityName, clock + 1)
  /\ clock' = clock + 1
  /\ last' = [op |-> "ensureEntityFolder", name |-> entityName, before |-> vault]
  /\ UNCHANGED <<queue, running, pass, handed, merge, chunker, conv, hook, disc, agent, detector, parser>>

InitIndex == vault = EmptyVault /\ VaultIdle /\ MergeIdle /\ ChunkerIdle /\ OthersIdle

NextIndex ==
  \/ \E e \in Entries, f \in Faults : AddEntry(EntitiesFolder, e, f)
  \/ \E es \in EntryLists : UpdateIndex(EntitiesFolder, es, "none")
  \/ \E n \in EntityNames : EnsureEntityFolder(n)

SpecIndex == InitIndex /\ [][NextIndex]_vars


-----------------------------------------------------------------------------
(* Reading a manifest as a reader of the document does: the table is the   *)
(* run of lines that start with "|" under the Contents header.             *)

\* the position after the table that starts at line start i
RECURSIVE TableEnd(_, _)
TableEnd(t, i) ==
  IF i <= Len(t) /\ t[i] = "|"
  THEN LET nl == IndexFrom(t, <<NL>>, i)
       IN IF nl = 0 THEN Len(t) + 1 ELSE TableEnd(t, nl + 1)
  ELSE i

HasTable(t) == TableRegion(t).from # 0

TableStart(t) == TableRegion(t).from + 4

BeforeHeader(t) == Take(t, TableRegion(t).from - 1)

AfterTable(t) == Drop(t, TableEnd(t, TableStart(t)) - 1)

\* the lines of the table, header lines included
TableLines(t) ==
  IF ~HasTable(t) THEN <<>>
  ELSE LET body == SubSeq(t, TableStart(t), TableEnd(t, TableStart(t)) - 1)
           lines == SplitOn(body, NL)
       IN IF lines[Len(lines)] = <<>> THEN Take(lines, Len(lines) - 1) ELSE lines

\* the rows under the two header lines
RowLines(t) == Drop(TableLines(t), 2)

RowName(line) == LinkMatch(line).name

RowNames(t) == { RowName(RowLines(t)[i]) : i \in 1..Len(RowLines(t)) }

\* a table row as a line
RowLine(entry) == Take(TableRow(entry), Len(TableRow(entry)) - 1)

Manifest(v, rel) == readTextFile(v, IndexPath(rel))

\* the manifest was rendered by createIndex
Rendered(t, rel) ==
  \E es \in EntryLists \cup { <<e>> : e \in Entries }, n \in 1..(MaxOps + 1) :
    t = IndexContent(rel, es, <<>>, n)

UpsertDone == last.op = "updateIndex" /\ last.fault = "none"

\* C1: after the upsert of an entry whose name is not yet in the manifest,
\* the table holds the rows it held before, in their order, followed by the
\* row of the new entry: no row is lost.
C1_PriorEntriesKept ==
  (/\ UpsertDone
   /\ Len(last.entries) = 1
   /\ last.entries[1].name \notin RowNames(Manifest(last.before, last.rel)))
  => RowLines(Manifest(vault, last.rel)) =
       RowLines(Manifest(last.before, last.rel)) \o <<RowLine(last.entries[1])>>

C4_RoundTrip ==
  (/\ UpsertDone
   /\ last.entries = <<>>
   /\ Rendered(Manifest(last.before, last.rel), last.rel))
  => TableLines(Manifest(vault, last.rel)) =
       TableLines(Manifest(last.before, last.rel))

\* C5: an upsert into an existing manifest leaves everything before the
\* Contents header and everything after the table as it was.
C5_OnlyTableChanges ==
  (/\ UpsertDone
   /\ HasTable(Manifest(last.before, last.rel)))
  => /\ BeforeHeader(Manifest(vault, last.rel)) =
          BeforeHeader(Manifest(last.before, last.rel))
     /\ AfterTable(Manifest(vault, last.rel)) =
          AfterTable(Manifest(last.before, last.rel))

\* C7: when the write of an upsert into an existing manifest fails, the
\* manifest holds what it held before the upsert.
C7_FailedWriteKeepsPrior ==
  (/\ last.op = "updateIndex"
   /\ last.fault # "none"
   /\ fileExists(last.before, IndexPath(last.rel)))
  => /\ fileExists(vault, IndexPath(last.rel))
     /\ Manifest(vault, last.rel) = Manifest(last.before, last.rel)


-----------------------------------------------------------------------------
(* The integration pass: VaultIntegrator.integrate, started by the         *)
(* discovery run (AutoDiscover.discover) and by the compaction of the stop *)
(* hook (runCompactionAsync).  The pass is a sequence of awaited steps:    *)
(* one per detected item, then updateRootIndex.                            *)

\* the analyzer's responses of the model
Field(label, value) == <<"- ", label, " ">> \o value \o <<NL>>

RespEntity ==
  <<"## ", "Entities", NL>> \o
  Field("**Name**:", <<"A">>) \o Field("**Attributes**:", <<"x", ",", " ", "y">>) \o
  <<NL, "## ", "Services", NL>> \o
  Field("**Name**:", <<"A", "S">>) \o Field("**Purpose**:", <<"p">>)

\* the entity of RespEntity in lower case, with other attributes
RespEntityLower ==
  <<"## ", "Entities", NL>> \o
  Field("**Name**:", <<"a">>) \o Field("**Attributes**:", <<"z">>)

\* two patterns, the name of the second a prefix of the name of the first
RespPatterns ==
  <<"## ", "Architecture", NL>> \o
  Field("**Pattern**:", <<"A", "B">>) \o Field("**Description**:", <<"d1">>) \o
  Field("**Pattern**:", <<"A">>) \o Field("**Description**:", <<"d2">>) \o
  Field("**Affected Files**:", <<"f">>)

RespPatternB ==
  <<"## ", "Architecture", NL>> \o
  Field("**Pattern**:", <<"B">>) \o Field("**Description**:", <<"d3">>)

RespKnowledge ==
  <<"Here is the summary.", NL, NL, "## ", "Knowledge", NL>> \o
  Field("**Topic**:", <<"A">>) \o Field("**Details**:", <<"k1">>) \o
  Field("**Topic**:", <<"B">>) \o Field("**Details**:", <<"k2">>)

\* the topic A twice, in two cases
RespKnowledgeTwice ==
  <<"## ", "Knowledge", NL>> \o
  Field("**Topic**:", <<"A">>) \o Field("**Details**:", <<"k3">>) \o
  Field("**Topic**:", <<"a">>) \o Field("**Details**:", <<"k4">>)

RespService ==
  <<"## ", "Services", NL>> \o
  Field("**Name**:", <<"B">>) \o Field("**Methods**:", <<"m">>)

\* two entities in lower case and a service of the first
RespTwoEntities ==
  <<"## ", "Entities", NL>> \o
  Field("**Name**:", <<"a">>) \o Field("**Name**:", <<"b">>) \o
  <<NL, "## ", "Services", NL>> \o
  Field("**Name**:", <<"a", "s">>) \o Field("**Purpose**:", <<"p">>)

\* the responses of the batches of a discovery run
DiscoverInputs ==
  {<<RespEntity>>, <<RespEntity, RespEntityLower>>, <<RespPatterns>>,
   <<RespKnowledge, RespKnowledgeTwice>>, <<RespService, RespPatternB>>}

\* the response to the summarization prompt of a compaction
CompactionInputs ==
  {RespEntity, RespPatterns, RespPatternB, RespKnowledge, RespKnowledgeTwice, RespService,
   RespTwoEntities}

\* the root a caller builds its integrator on: the stop hook the vault
\* (getVaultPath(projectPath)), discover the project path itself, which holds
\* no root manifest; the passes of one behaviour are the passes on one root
RootOf(via) == IF via = "compaction" THEN InitialVault ELSE EmptyVault

\* integrate: detect, and return at once when nothing was detected
StartIntegrate(summary, via) ==
  /\ ~running
  /\ pass.n < MaxPasses
  /\ IF pass.n = 0 THEN vault = RootOf(via) ELSE handed.via = via
  /\ handed' = [via |-> via, summary |-> summary]
  /\ pass' = [n |-> pass.n + 1, summary |-> summary, before |-> vault,
              prev |-> IF pass.n = 0 THEN <<>> ELSE <<pass.summary>>]
  /\ queue' = detect(summary)
  /\ running' = (detect(summary) # <<>>)
  /\ last' = [op |-> "integrate"]
  /\ UNCHANGED <<vault, clock, merge, chunker, conv, hook, disc, agent, detector, parser>>

\* discover: the responses of the batches are parsed, the partial results
\* merged, the merged result integrated
Discover(responses) ==
  StartIntegrate(
    mergeSummaries([i \in 1..Len(responses) |-> parseResponse(responses[i])]),
    "discover")

\* runCompactionAsync: the response is parsed, the result integrated
RunCompaction(response) ==
  StartIntegrate(parseSummary(response), "compaction")

Step(op, v) ==
  /\ vault' = v
  /\ clock' = clock + 1
  /\ queue' = Tail(queue)
  /\ last' = [op |-> op, item |-> Head(queue), before |-> vault]
  /\ UNCHANGED <<running, pass, handed, merge, chunker, conv, hook, disc, agent, detector, parser>>

ProcessEntity ==
  /\ running /\ queue # <<>> /\ Head(queue).type = "entity"
  /\ Step("processEntity", processEntity(vault, Head(queue), clock + 1))

ProcessService ==
  /\ running /\ queue # <<>> /\ Head(queue).type = "service"
  /\ Step("processService", processService(vault, Head(queue), clock + 1))

ProcessPattern ==
  /\ running /\ queue # <<>> /\ Head(queue).type = "pattern"
  /\ Step("processPattern", processPattern(vault, Head(queue)))

ProcessKnowledge ==
  /\ running /\ queue # <<>> /\ Head(queue).type = "knowledge"
  /\ Step("processKnowledge", processKnowledge(vault, Head(queue)))

UpdateRootIndex ==
  /\ running /\ queue = <<>>
  /\ vault' = updateRootIndex(vault, clock + 1)
  /\ clock' = clock + 1
  /\ running' = FALSE
  /\ last' = [op |-> "updateRootIndex", before |-> vault]
  /\ UNCHANGED <<queue, pass, handed, merge, chunker, conv, hook, disc, agent, detector, parser>>

InitVault ==
  /\ vault \in {InitialVault, EmptyVault}
  /\ VaultIdle /\ MergeIdle /\ ChunkerIdle /\ OthersIdle

NextVault ==
  \/ \E rs \in DiscoverInputs : Discover(rs)
  \/ \E r \in CompactionInputs : RunCompaction(r)
  \/ ProcessEntity
  \/ ProcessService
  \/ ProcessPattern
  \/ ProcessKnowledge
  \/ UpdateRootIndex

SpecVault == InitVault /\ [][NextVault]_vars


-----------------------------------------------------------------------------
(* Reading the architecture and the general-knowledge document as a        *)
(* reader does: a section starts at a line that starts with "## " and      *)
(* ends before the next such line.                                         *)

HeaderPositions(t) == { i \in 1..Len(t) : t[i] = "## " /\ (i = 1 \/ t[i - 1] = NL) }

\* the section that starts at header position i, without the white space
\* around it
SectionAt(t, i) ==
  LET later == { j \in HeaderPositions(t) : j > i }
      stop == IF later = {} THEN Len(t)
              ELSE (CHOOSE j \in later : \A k \in later : j <= k) - 1
  IN [name |-> SubSeq(t, i + 1, LineEnd(t, i)), text |-> Trim(SubSeq(t, i, stop))]

\* the positions of a set in ascending order
RECURSIVE Ascending(_)
Ascending(S) ==
  IF S = {} THEN <<>>
  ELSE LET m == CHOOSE x \in S : \A y \in S : x <= y
       IN <<m>> \o Ascending(S \ {m})

SectionsOf(t) ==
  LET at == Ascending(HeaderPositions(t))
  IN [k \in 1..Len(at) |-> SectionAt(t, at[k])]

SectionDoc(op) == IF op = "processPattern" THEN ArchitectureDoc ELSE KnowledgeDoc

\* C6: after the upsert of section N the document has exactly one section
\* headed N, which holds the new content, and the sections with another
\* header are the ones the document had, unchanged.
C6_SectionUpsert ==
  last.op \in {"processPattern", "processKnowledge"} =>
    LET before == SectionsOf(readTextFile(last.before, SectionDoc(last.op)))
        after == SectionsOf(readTextFile(vault, SectionDoc(last.op)))
        isN(sec) == sec.name = last.item.name
        other(sec) == sec.name # last.item.name
    IN /\ SelectSeq(after, isN) =
            <<[name |-> last.item.name, text |-> Trim(last.item.content)]>>
       /\ SelectSeq(after, other) = SelectSeq(before, other)

\* the root manifest up to the timestamp updateRootIndex writes
RootWithoutStamp(t) ==
  LET i == IndexFrom(t, <<"## ", "Last Updated">>, 1)
  IN IF i = 0 THEN t ELSE Take(t, i + 1)

SameButRootStamp(v, w) ==
  /\ DOMAIN v = DOMAIN w
  /\ \A p \in DOMAIN v :
       IF p = RootIndex THEN RootWithoutStamp(v[p]) = RootWithoutStamp(w[p])
       ELSE v[p] = w[p]

PassDone == pass.n >= 1 /\ ~running

\* C3: a pass with the summary of the pass before it leaves every manifest
\* and every document as that pass left them, the timestamp of the root
\* manifest aside.
C3_IntegrateIdempotent ==
  (PassDone /\ pass.prev = <<pass.summary>>) => SameButRootStamp(vault, pass.before)

NoTwoSameKey(records, category) ==
  \A i, j \in 1..Len(records) :
    RecordKey(category, records[i]) = RecordKey(category, records[j]) => i = j

NoDuplicateKeys(summary) ==
  /\ NoTwoSameKey(summary.entities, "entities")
  /\ NoTwoSameKey(summary.architecture, "architecture")
  /\ NoTwoSameKey(summary.services, "services")
  /\ NoTwoSameKey(summary.knowledge, "knowledge")

\* C9: a unified result handed to integrate, by the discovery run or by the
\* compaction, holds no two records of a category with the same key,
\* ignoring case.
C9_HandedResultHasUniqueKeys ==
  handed # <<>> => NoDuplicateKeys(handed.summary)

\* the part of C9 that is about the discovery run
C9_DiscoverHandsUniqueKeys ==
  (handed # <<>> /\ handed.via = "discover") => NoDuplicateKeys(handed.summary)

-----------------------------------------------------------------------------
(* The aggregation of a discovery run: discover analyzes its batches one   *)
(* after the other, keeps the partial result of each analysis that         *)
(* succeeded, and merges them when at least one succeeded.                 *)

\* the analyzer's responses to the batches
BatchResponses ==
  {RespEntity, RespEntityLower, RespPatterns, RespPatternB, RespKnowledge,
   RespKnowledgeTwice, RespService}

\* discover, step 4: partialSummaries.push(await this.analyzeChunk(chunk))
AnalyzeChunk(response) ==
  /\ merge.state = "analyzing"
  /\ Len(merge.summaries) < MaxBatches
  /\ merge' = [merge EXCEPT !.summaries = Append(@, parseResponse(response))]
  /\ UNCHANGED <<vault, clock, last, queue, running, pass, handed, chunker, conv, hook, disc, agent, detector, parser>>

\* discover, step 5: this.mergeSummaries(partialSummaries), unless no
\* analysis succeeded
MergeSummaries ==
  /\ merge.state = "analyzing"
  /\ merge.summaries # <<>>
  /\ merge' = [state |-> "merged", summaries |-> merge.summaries,
               merged |-> mergeSummaries(merge.summaries)]
  /\ UNCHANGED <<vault, clock, last, queue, running, pass, handed, chunker, conv, hook, disc, agent, detector, parser>>

InitMerge ==
  /\ vault = EmptyVault /\ VaultIdle /\ ChunkerIdle /\ OthersIdle
  /\ merge = [state |-> "analyzing", summaries |-> <<>>]

NextMerge ==
  \/ \E r \in BatchResponses : AnalyzeChunk(r)
  \/ MergeSummaries

SpecMerge == InitMerge /\ [][NextMerge]_vars

-----------------------------------------------------------------------------
(* Reading the input of a merge: the occurrences of a category are the     *)
(* pairs (batch, position in the batch), ordered by batch, then position.  *)

Categories == {"entities", "architecture", "services", "knowledge"}

Occurrences(c) ==
  UNION { { <<i, j>> : j \in 1..Len(merge.summaries[i][c]) } :
          i \in 1..Len(merge.summaries) }

RecordOf(c, p) == merge.summaries[p[1]][c][p[2]]

Earlier(p, q) == p[1] < q[1] \/ (p[1] = q[1] /\ p[2] < q[2])

SameKey(c, p, q) == RecordKey(c, RecordOf(c, p)) = RecordKey(c, RecordOf(c, q))

\* the occurrences no earlier occurrence has the key of
FirstSeen(c) ==
  { p \in Occurrences(c) : \A q \in Occurrences(c) : Earlier(q, p) => ~SameKey(c, p, q) }

\* C8: the merged result holds, for every key, the whole record of the
\* earliest occurrence of the key (keys compared ignoring case), once, and
\* lists the records in the order their keys first occur.
C8_FirstSeenWins ==
  merge.state = "merged" =>
    \A c \in Categories :
      /\ Len(merge.merged[c]) = Cardinality(FirstSeen(c))
      /\ \A p \in FirstSeen(c) :
           merge.merged[c][Cardinality({ q \in FirstSeen(c) : Earlier(q, p) }) + 1]
             = RecordOf(c, p)

\* a merge of batches of which a later one holds another record for a key
\* of an earlier one
C8_Witness ==
  /\ merge.state = "merged"
  /\ \E c \in Categories : \E p, q \in Occurrences(c) :
       /\ p[1] < q[1]
       /\ SameKey(c, p, q)
       /\ RecordOf(c, p) # RecordOf(c, q)
       /\ p \in FirstSeen(c)

-----------------------------------------------------------------------------
(* ChunkManager.  In this part a text is a sequence of characters, one     *)
(* string per character, so that lengths, lastIndexOf and slice are        *)
(* computed character by character.  Positions are the 0-based positions   *)
(* of the source; character i of the source is element i + 1.              *)

DEFAULT_MAX_CHUNK_SIZE == 50000

\* n times the character c
Rep(c, n) == [i \in 1..n |-> c]

\* Math.ceil(text.length / 4)
estimateTokens(text) == (Len(text) + 3) \div 4

\* `===== FILE: ${filePath} =====\n${content}\n===== END: ${filePath} =====`
formatFileContent(filePath, content) ==
  Rep("=", 5) \o <<" ", "F", "I", "L", "E", ":", " ">> \o filePath \o <<" ">> \o
  Rep("=", 5) \o <<NL>> \o content \o <<NL>> \o
  Rep("=", 5) \o <<" ", "E", "N", "D", ":", " ">> \o filePath \o <<" ">> \o Rep("=", 5)

\* "\n\n[... TRUNCATED - file too large ...]"
TruncationMessage ==
  <<NL, NL, "[", ".", ".", ".", " ",
    "T", "R", "U", "N", "C", "A", "T", "E", "D", " ", "-", " ",
    "f", "i", "l", "e", " ", "t", "o", "o", " ", "l", "a", "r", "g", "e", " ",
    ".", ".", ".", "]">>

\* content.lastIndexOf("\n", fromIndex): the search starts at fromIndex,
\* clamped to 0..length, and goes backwards; -1 when nothing is found
lastIndexOfNewline(content, fromIndex) ==
  LET from == IF fromIndex < 0 THEN 0 ELSE fromIndex
      at == { i \in 0..(Len(content) - 1) : i <= from /\ content[i + 1] = NL }
  IN IF at = {} THEN -1 ELSE CHOOSE i \in at : \A j \in at : j <= i

\* content.slice(0, end): a negative end counts from the end of the text
slice0(content, end) ==
  LET e == IF end < 0 THEN Len(content) + end ELSE end
  IN Take(content, IF e < 0 THEN 0 ELSE IF e > Len(content) THEN Len(content) ELSE e)

\* truncateContent; lastNewline > truncateAt * 0.5 is compared doubled
truncateContent(content, maxSize) ==
  IF Len(content) <= maxSize THEN content
  ELSE LET truncateAt == maxSize - 100
           lastNewline == lastIndexOfNewline(content, truncateAt)
           cutPoint == IF 2 * lastNewline > truncateAt THEN lastNewline ELSE truncateAt
       IN slice0(content, cutPoint) \o TruncationMessage

\* createChunk; totalChunks is set when all chunks are created
createChunk(files, content, index) ==
  [files |-> files, content |-> Trim(content),
   estimatedTokens |-> estimateTokens(content), index |-> index, totalChunks |-> 0]

\* the files on disk of the model: path -> content.  a and b are 36
\* characters in two lines, c is 130 characters in four lines, d is empty,
\* e is one line, f is one line of 140 characters
FileA == Rep("x", 17) \o <<NL>> \o Rep("x", 18)
FileC == Rep("y", 20) \o <<NL>> \o Rep("y", 40) \o <<NL>> \o Rep("y", 30) \o <<NL>> \o Rep("y", 37)
Disk ==
  [f \in {"a", "b", "c", "d", "e", "f"} |->
     CASE f \in {"a", "b"} -> FileA
       [] f = "c" -> FileC
       [] f = "d" -> <<>>
       [] f = "e" -> Rep("z", 10)
       [] f = "f" -> Rep("w", 140)]

\* ChunkLoop with a file over the bound pushed without the pending chunk
\* being closed first
RECURSIVE ChunkLoopKeepsPending(_, _, _)
ChunkLoopKeepsPending(files, maxChunkSize, acc) ==
  IF files = <<>> THEN acc
  ELSE
    LET file == Head(files)
        content == Disk[file]
        formattedContent == formatFileContent(<<file>>, content)
        contentSize == Len(formattedContent)
        flushed == [chunks |-> Append(acc.chunks,
                                 createChunk(acc.currentChunk, acc.currentContent,
                                             Len(acc.chunks))),
                    currentChunk |-> <<>>, currentContent |-> <<>>, currentSize |-> 0]
        add(a) == [chunks |-> a.chunks,
                   currentChunk |-> Append(a.currentChunk, file),
                   currentContent |-> a.currentContent \o formattedContent \o <<NL, NL>>,
                   currentSize |-> a.currentSize + contentSize]
    IN IF content = <<>> THEN ChunkLoopKeepsPending(Tail(files), maxChunkSize, acc)
       ELSE IF contentSize > maxChunkSize
       THEN ChunkLoopKeepsPending(Tail(files), maxChunkSize,
              [acc EXCEPT !.chunks =
                 Append(@, createChunk(<<file>>,
                             truncateContent(formattedContent, maxChunkSize),
                             Len(acc.chunks)))])
       ELSE IF acc.currentSize + contentSize > maxChunkSize /\ acc.currentChunk # <<>>
       THEN ChunkLoopKeepsPending(Tail(files), maxChunkSize, add(flushed))
       ELSE ChunkLoopKeepsPending(Tail(files), maxChunkSize, add(acc))

\* the loop of prepareChunks over the files that are left; acc holds
\* chunks, currentChunk, currentContent and currentSize
RECURSIVE ChunkLoop(_, _, _)
ChunkLoop(files, maxChunkSize, acc) ==
  IF files = <<>> THEN acc
  ELSE
    LET file == Head(files)
        content == Disk[file]
        formattedContent == formatFileContent(<<file>>, content)
        contentSize == Len(formattedContent)
        flushed == [chunks |-> Append(acc.chunks,
                                 createChunk(acc.currentChunk, acc.currentContent,
                                             Len(acc.chunks))),
                    currentChunk |-> <<>>, currentContent |-> <<>>, currentSize |-> 0]
        add(a) == [chunks |-> a.chunks,
                   currentChunk |-> Append(a.currentChunk, file),
                   currentContent |-> a.currentContent \o formattedContent \o <<NL, NL>>,
                   currentSize |-> a.currentSize + contentSize]
    IN IF content = <<>> THEN ChunkLoop(Tail(files), maxChunkSize, acc)
       ELSE IF contentSize > maxChunkSize
       THEN LET a == IF acc.currentChunk # <<>> THEN flushed ELSE acc
            IN ChunkLoop(Tail(files), maxChunkSize,
                 [a EXCEPT !.chunks =
                    Append(@, createChunk(<<file>>,
                                truncateContent(formattedContent, maxChunkSize),
                                Len(a.chunks)))])
       ELSE IF acc.currentSize + contentSize > maxChunkSize /\ acc.currentChunk # <<>>
       THEN ChunkLoop(Tail(files), maxChunkSize, add(flushed))
       ELSE ChunkLoop(Tail(files), maxChunkSize, add(acc))

\* prepareChunks without the push of the last chunk after the loop
prepareChunksForgetsLast(files, maxChunkSize) ==
  LET acc == ChunkLoop(files, maxChunkSize,
               [chunks |-> <<>>, currentChunk |-> <<>>, currentContent |-> <<>>,
                currentSize |-> 0])
      chunks == acc.chunks
  IN [k \in 1..Len(chunks) |-> [chunks[k] EXCEPT !.totalChunks = Len(chunks)]]

\* prepareChunks, on a manager that has not prepared its chunks yet
prepareChunks(files, maxChunkSize) ==
  LET acc == ChunkLoop(files, maxChunkSize,
               [chunks |-> <<>>, currentChunk |-> <<>>, currentContent |-> <<>>,
                currentSize |-> 0])
      chunks == IF acc.currentChunk # <<>>
                THEN Append(acc.chunks,
                       createChunk(acc.currentChunk, acc.currentContent, Len(acc.chunks)))
                ELSE acc.chunks
  IN [k \in 1..Len(chunks) |-> [chunks[k] EXCEPT !.totalChunks = Len(chunks)]]

-----------------------------------------------------------------------------
(* A ChunkManager: constructed on a list of files and an optional bound,   *)
(* then asked for its chunks.                                              *)

\* the lists of at most n files
RECURSIVE FileLists(_)
FileLists(n) ==
  IF n = 0 THEN {<<>>}
  ELSE FileLists(n - 1) \cup
       { Append(fs, f) : fs \in { l \in FileLists(n - 1) : Len(l) = n - 1 },
                         f \in DOMAIN Disk }

\* options?.maxChunkSize: <<>> when no size is given
ChunkSizes == {60, 150, 200}
ChunkOptions == {<<>>} \cup { <<n>> : n \in ChunkSizes }

\* new ChunkManager(files, options)
NewChunkManager(files, options) ==
  /\ chunker.state = "idle"
  /\ chunker' = [state |-> "constructed", files |-> files,
                 maxChunkSize |-> IF options = <<>> THEN DEFAULT_MAX_CHUNK_SIZE
                                  ELSE options[1],
                 chunks |-> <<>>]
  /\ UNCHANGED <<vault, clock, last, queue, running, pass, handed, merge, conv, hook, disc, agent, detector, parser>>

\* prepareChunks(): the chunks are computed once and kept
PrepareChunks ==
  /\ chunker.state = "constructed"
  /\ chunker' = [chunker EXCEPT !.state = "prepared",
                                !.chunks = prepareChunks(chunker.files, chunker.maxChunkSize)]
  /\ UNCHANGED <<vault, clock, last, queue, running, pass, handed, merge, conv, hook, disc, agent, detector, parser>>

InitChunk == vault = EmptyVault /\ VaultIdle /\ MergeIdle /\ ChunkerIdle /\ OthersIdle

NextChunk ==
  \/ \E files \in FileLists(MaxFiles), options \in ChunkOptions :
       NewChunkManager(files, options)
  \/ PrepareChunks

SpecChunk == InitChunk /\ [][NextChunk]_vars

\* C10: every chunk prepareChunks returns has a content of at most
\* maxChunkSize characters, a chunk of several files and the chunk of a
\* truncated file included.
C10_ChunkWithinBound ==
  chunker.state = "prepared" =>
    \A k \in 1..Len(chunker.chunks) :
      Len(chunker.chunks[k].content) <= chunker.maxChunkSize

-----------------------------------------------------------------------------
(* Reading the chunks of a prepared ChunkManager.                          *)

Chunks == chunker.chunks

Formatted(file) == formatFileContent(<<file>>, Disk[file])

\* the file does not fit the bound of the manager
OverBound(file) == Len(Formatted(file)) > chunker.maxChunkSize

\* chunk k holds one file, which does not fit the bound
TruncatedChunk(k) == Len(Chunks[k].files) = 1 /\ OverBound(Chunks[k].files[1])

\* the first n characters of t are whole lines of t
WholeLines(t, n) == n >= 1 /\ n <= Len(t) /\ (n = Len(t) \/ t[n + 1] = NL \/ t[n] = NL)

\* C11: the content of the chunk of a file that does not fit the bound is
\* a prefix of the formatted file that ends at the end of a line, followed
\* by the truncation message.
C11_TruncationAtLineEnd ==
  chunker.state = "prepared" =>
    \A k \in 1..Len(Chunks) :
      TruncatedChunk(k) =>
        \E n \in 1..Len(Formatted(Chunks[k].files[1])) :
          /\ WholeLines(Formatted(Chunks[k].files[1]), n)
          /\ Chunks[k].content =
               Take(Formatted(Chunks[k].files[1]), n) \o TruncationMessage

\* the files prepareChunks does not skip, in the order given
Items == SelectSeq(chunker.files, LAMBDA f : Disk[f] # <<>>)

\* the files of all chunks, in the order of the chunks
ChunkedFiles == Concat([k \in 1..Len(Chunks) |-> Chunks[k].files])

\* the sum of the formatted sizes of the files of chunk k
PackedSize(k) ==
  Len(Concat([i \in 1..Len(Chunks[k].files) |-> Formatted(Chunks[k].files[i])]))

\* C12: a file over the bound is a chunk of its own; the chunks hold the
\* files in the order given, so the files before it are in earlier chunks
\* and the files after it in later ones; the other chunks are packed up to
\* the bound, a chunk being closed only when the next file does not fit;
\* index is the position of the chunk and totalChunks the number of chunks.
C12_OversizedAlone ==
  chunker.state = "prepared" =>
    /\ ChunkedFiles = Items
    /\ \A k \in 1..Len(Chunks) :
         /\ Chunks[k].index = k - 1
         /\ Chunks[k].totalChunks = Len(Chunks)
         /\ Chunks[k].files # <<>>
         /\ \A i \in 1..Len(Chunks[k].files) :
              OverBound(Chunks[k].files[i]) => Len(Chunks[k].files) = 1
         /\ ~TruncatedChunk(k) => PackedSize(k) <= chunker.maxChunkSize
         /\ (k < Len(Chunks) /\ ~TruncatedChunk(k) /\ ~TruncatedChunk(k + 1)) =>
              PackedSize(k) + Len(Formatted(Chunks[k + 1].files[1])) > chunker.maxChunkSize

\* a file over the bound between a file before it and a file after it
C12_Witness ==
  /\ chunker.state = "prepared"
  /\ Len(Chunks) = 3
  /\ TruncatedChunk(2)
  /\ ~TruncatedChunk(1)
  /\ ~TruncatedChunk(3)

\* the first and the last line formatFileContent puts around a file
BeginMarker(filePath) ==
  Rep("=", 5) \o <<" ", "F", "I", "L", "E", ":", " ">> \o filePath \o <<" ">> \o Rep("=", 5)

EndMarker(filePath) ==
  Rep("=", 5) \o <<" ", "E", "N", "D", ":", " ">> \o filePath \o <<" ">> \o Rep("=", 5)

\* the content has the begin marker of the file and, after it, its end marker
Wrapped(content, file) ==
  LET begin == IndexFrom(content, BeginMarker(<<file>>), 1)
  IN /\ begin # 0
     /\ IndexFrom(content, EndMarker(<<file>>), begin + Len(BeginMarker(<<file>>))) # 0

\* C13: in every chunk, every file of the chunk is in the content between
\* its begin marker and its end marker, both with the path of the file; the
\* chunk of a truncated file too.
C13_EveryFileWrapped ==
  chunker.state = "prepared" =>
    \A k \in 1..Len(Chunks) :
      \A i \in 1..Len(Chunks[k].files) : Wrapped(Chunks[k].content, Chunks[k].files[i])

-----------------------------------------------------------------------------
(* ConversationManager.  The disk d it works on has session-map.json (map:  *)
(* the entries of the object in the order of their keys, <<>> when there is *)
(* no file) and the folders under conversations (folders: for each folder   *)
(* its files by name).  A path is the sequence of its segments, a file name *)
(* the index followed by ".txt"; texts are sequences of atoms, and an atom  *)
(* stands for as many bytes as NameBytes says.                              *)

\* the bytes of an atom: a session id is 8 + 1 + 6 characters, a time stamp
\* is an ISO string of 24, and the prompt P916 has 916 bytes: segment 0 with
\* it as the first entry has 69 + 39 + 916 = 1024 bytes
SessionIds == { "s" \o ToString(n) : n \in 1..MaxSessions }

getCurrentTimestamp(now) == "T" \o ToString(now)

Stamps == { getCurrentTimestamp(n) : n \in 0..MaxCalls }

Prompts == {"hi", "P916"}

NameBytes(a) ==
  CASE a \in SessionIds -> 15
    [] a \in Stamps -> 24
    [] a = "P916" -> 916
    [] a = "A903" -> 903
    [] a = "P51092" -> 51092
    [] OTHER -> Len(a)

RECURSIVE Bytes(_)
Bytes(content) ==
  IF content = <<>> THEN 0
  ELSE IF Len(content) = 1 THEN NameBytes(content[1])
  ELSE LET half == Len(content) \div 2
       IN Bytes(SubSeq(content, 1, half)) + Bytes(SubSeq(content, half + 1, Len(content)))

NoDisk == [map |-> <<>>, folders |-> <<>>]

\* getConversationsPath joined with the session id
ConversationPath(sessionId) == <<"cc-knowledge-base", "conversations", sessionId>>

FolderOf(conversationPath) == conversationPath[3]

SegmentName(index) == <<ToString(index), ".txt">>

\* fs.writeFile / fs.appendFile on a file of a session folder, the folder
\* made when it is missing (ensureDir)
PutSegment(d, folder, name, content) ==
  LET old == IF folder \in DOMAIN d.folders THEN d.folders[folder] ELSE <<>>
      new == [n \in DOMAIN old \cup {name} |-> IF n = name THEN content ELSE old[n]]
  IN [d EXCEPT !.folders =
        [f \in DOMAIN d.folders \cup {folder} |-> IF f = folder THEN new ELSE d.folders[f]]]

\* readTextFile on a file of a session folder: <<>> when there is none
ReadSegment(d, folder, name) ==
  IF folder \in DOMAIN d.folders /\ name \in DOMAIN d.folders[folder]
  THEN d.folders[folder][name] ELSE <<>>

\* listDir: the names in the folder, [] when there is no folder
listDir(d, folder) == IF folder \in DOMAIN d.folders THEN DOMAIN d.folders[folder] ELSE {}

endsWithTxt(f) == f # <<>> /\ f[Len(f)] = ".txt"

\* parseInt(f.replace(".txt", ""), 10)
MaxIndex == LongRotations + MaxCalls + 1
parseInt(f) == CHOOSE n \in 0..MaxIndex : ToString(n) = f[1]

loadSessionMap(d) == d.map

\* saveSessionMap with the file left as it was
saveSessionMapLost(d, map) == d

saveSessionMap(d, map) == [d EXCEPT !.map = map]

\* sessionMap[key] = state on an object: a key it has keeps its place
MapSet(map, key, state) ==
  IF \E i \in 1..Len(map) : map[i].key = key
  THEN [i \in 1..Len(map) |-> IF map[i].key = key THEN [key |-> key, state |-> state]
                              ELSE map[i]]
  ELSE Append(map, [key |-> key, state |-> state])

\* getSessionState rebuilding a state for a session without asking whether
\* its folder is there
getSessionStateUnasked(d, sessionId, now) ==
  LET sessionMap == loadSessionMap(d)
      hits == { i \in 1..Len(sessionMap) : sessionMap[i].state.sessionId = sessionId }
  IN IF hits # {}
     THEN <<sessionMap[CHOOSE i \in hits : \A j \in hits : i <= j].state>>
     ELSE <<[sessionId |-> sessionId, conversationPath |-> ConversationPath(sessionId),
             currentFileIndex |-> 0, startedAt |-> getCurrentTimestamp(now)]>>

\* getSessionState: <<>> for null, <<state>> otherwise
getSessionState(d, sessionId, now) ==
  LET sessionMap == loadSessionMap(d)
      hits == { i \in 1..Len(sessionMap) : sessionMap[i].state.sessionId = sessionId }
      txtFiles == { f \in listDir(d, sessionId) : endsWithTxt(f) }
      indexes == { parseInt(f) : f \in txtFiles }
      maxIndex == IF indexes = {} THEN 0
                  ELSE CHOOSE m \in indexes : \A n \in indexes : n <= m
  IN IF hits # {}
     THEN <<sessionMap[CHOOSE i \in hits : \A j \in hits : i <= j].state>>
     ELSE IF sessionId \in DOMAIN d.folders
     THEN <<[sessionId |-> sessionId, conversationPath |-> ConversationPath(sessionId),
             currentFileIndex |-> maxIndex, startedAt |-> getCurrentTimestamp(now)]>>
     ELSE <<>>

\* updateSessionState
updateSessionState(d, state) ==
  LET sessionMap == loadSessionMap(d)
      hits == { i \in 1..Len(sessionMap) : sessionMap[i].state.sessionId = state.sessionId }
      first == CHOOSE i \in hits : \A j \in hits : i <= j
  IN saveSessionMap(d,
       IF hits # {} THEN MapSet(sessionMap, sessionMap[first].key, state)
       ELSE MapSet(sessionMap, state.conversationPath, state))

\* createConversation
createConversation(d, sessionId, now) ==
  LET conversationPath == ConversationPath(sessionId)
      written == PutSegment(d, sessionId, SegmentName(0),
                   <<"# Conversation: ", sessionId, NL, "# Started: ",
                     getCurrentTimestamp(now), NL, NL>>)
  IN updateSessionState(written,
       [sessionId |-> sessionId, conversationPath |-> conversationPath,
        currentFileIndex |-> 0, startedAt |-> getCurrentTimestamp(now)])

\* formatEntry; tool is <<>> or <<name>>
formatEntry(type, timestamp, content, tool) ==
  <<"[", type, "]", "[", timestamp, "]">> \o
  (IF tool # <<>> THEN <<"[TOOL:", tool[1], "]">> ELSE <<>>) \o
  <<NL, content, NL, "---", NL, NL>>

\* rotateConversation, the session known
rotateConversation(d, sessionId, now) ==
  LET state == getSessionState(d, sessionId, now)[1]
      newIndex == state.currentFileIndex + 1
      written == PutSegment(d, FolderOf(state.conversationPath), SegmentName(newIndex),
                   <<"# Conversation: ", sessionId, " (continued)", NL,
                     "# Compaction: ", ToString(newIndex), NL,
                     "# Time: ", getCurrentTimestamp(now), NL, NL>>)
  IN updateSessionState(written, [state EXCEPT !.currentFileIndex = newIndex])

\* checkRotation rotating only above the threshold
checkRotationAbove(d, sessionId, sizeThresholdKB, now) ==
  LET found == getSessionState(d, sessionId, now)
      state == found[1]
      size == Bytes(ReadSegment(d, FolderOf(state.conversationPath),
                                SegmentName(state.currentFileIndex)))
      thresholdBytes == sizeThresholdKB * 1024
  IN IF found = <<>> THEN d
     ELSE IF size > thresholdBytes THEN rotateConversation(d, sessionId, now)
     ELSE d

\* checkRotation
checkRotation(d, sessionId, sizeThresholdKB, now) ==
  LET found == getSessionState(d, sessionId, now)
      state == found[1]
      size == Bytes(ReadSegment(d, FolderOf(state.conversationPath),
                                SegmentName(state.currentFileIndex)))
      thresholdBytes == sizeThresholdKB * 1024
  IN IF found = <<>> THEN d
     ELSE IF size >= thresholdBytes THEN rotateConversation(d, sessionId, now)
     ELSE d

\* appendUserInput: the disk it leaves and the error it throws
appendUserInput(d, sessionId, prompt, sizeThresholdKB, now) ==
  LET found == getSessionState(d, sessionId, now)
      state == found[1]
      entry == formatEntry("USER", getCurrentTimestamp(now), prompt, <<>>)
      dir == FolderOf(state.conversationPath)
      filePath == SegmentName(state.currentFileIndex)
      appended == PutSegment(d, dir, filePath, ReadSegment(d, dir, filePath) \o entry)
  IN IF found = <<>> THEN [d |-> d, error |-> "No session found"]
     ELSE [d |-> checkRotation(appended, sessionId, sizeThresholdKB, now), error |-> "none"]

\* appendClaudeOutput writing to the first segment, whatever the current one
appendClaudeOutputFirst(d, sessionId, toolName, action, now) ==
  LET found == getSessionState(d, sessionId, now)
      state == found[1]
      entry == formatEntry("CLAUDE", getCurrentTimestamp(now), action, <<toolName>>)
      dir == FolderOf(state.conversationPath)
      filePath == SegmentName(0)
  IN IF found = <<>> THEN [d |-> d, error |-> "No session found"]
     ELSE [d |-> PutSegment(d, dir, filePath, ReadSegment(d, dir, filePath) \o entry),
           error |-> "none"]

\* appendClaudeOutput
appendClaudeOutput(d, sessionId, toolName, action, now) ==
  LET found == getSessionState(d, sessionId, now)
      state == found[1]
      entry == formatEntry("CLAUDE", getCurrentTimestamp(now), action, <<toolName>>)
      dir == FolderOf(state.conversationPath)
      filePath == SegmentName(state.currentFileIndex)
  IN IF found = <<>> THEN [d |-> d, error |-> "No session found"]
     ELSE [d |-> PutSegment(d, dir, filePath, ReadSegment(d, dir, filePath) \o entry),
           error |-> "none"]

\* the digits of an index below 100
Digits(n) == IF n < 10 THEN <<n>> ELSE <<n \div 10, n % 10>>

\* the name of index m is before the name of index n as a string
NameBefore(m, n) ==
  \/ Digits(m)[1] < Digits(n)[1]
  \/ /\ Digits(m)[1] = Digits(n)[1]
     /\ \/ Len(Digits(m)) < Len(Digits(n))
        \/ Len(Digits(m)) = 2 /\ Len(Digits(n)) = 2 /\ Digits(m)[2] < Digits(n)[2]

\* files.sort() with no function to compare: the names as strings
SortByName(files) ==
  [i \in 1..Cardinality(files) |->
     CHOOSE f \in files :
       Cardinality({ g \in files : NameBefore(parseInt(g), parseInt(f)) }) = i - 1]

\* files.sort((a, b) => numA - numB) on names with different numbers
SortByNumber(files) ==
  [i \in 1..Cardinality(files) |->
     CHOOSE f \in files : Cardinality({ g \in files : parseInt(g) < parseInt(f) }) = i - 1]

\* getConversationFiles: the names, in order
getConversationFiles(d, sessionId, now) ==
  LET found == getSessionState(d, sessionId, now)
  IN IF found = <<>> THEN <<>>
     ELSE SortByNumber({ f \in listDir(d, FolderOf(found[1].conversationPath)) :
                         endsWithTxt(f) })

\* contents.join("\n\n---\n\n")
RECURSIVE Join(_, _)
Join(contents, sep) ==
  IF contents = <<>> THEN <<>>
  ELSE IF Len(contents) = 1 THEN contents[1]
  ELSE contents[1] \o sep \o Join(Tail(contents), sep)

SegmentSeparator == <<NL, NL, "---", NL, NL>>

\* getFullConversation
getFullConversation(d, sessionId, now) ==
  LET files == getConversationFiles(d, sessionId, now)
      folder == FolderOf(getSessionState(d, sessionId, now)[1].conversationPath)
      contents == [i \in 1..Len(files) |-> ReadSegment(d, folder, files[i])]
  IN Join(SelectSeq(contents, LAMBDA c : c # <<>>), SegmentSeparator)

\* getOrCreateSession; transcriptPath is <<>> when none is given, newId is
\* what generateSessionId gives
getOrCreateSession(d, transcriptPath, newId, now) ==
  LET sessionMap == loadSessionMap(d)
      existing == { i \in 1..Len(sessionMap) : sessionMap[i].key = transcriptPath }
      created == createConversation(d, newId, now)
      state == getSessionState(created, newId, now)
  IN IF transcriptPath # <<>> /\ existing # {}
     THEN [d |-> d, sessionId |-> sessionMap[CHOOSE i \in existing : TRUE].state.sessionId]
     ELSE IF transcriptPath # <<>> /\ state # <<>>
     THEN [d |-> saveSessionMap(created,
                   MapSet(loadSessionMap(created), transcriptPath, state[1])),
           sessionId |-> newId]
     ELSE [d |-> created, sessionId |-> newId]

-----------------------------------------------------------------------------
(* Calls on a ConversationManager of one project, one after the other; a   *)
(* manager keeps nothing in memory, so a call after a restart of the       *)
(* process is a call like any other.  conv.prev is the disk before the     *)
(* last call, conv.last the call and what it returned, conv.sessions what  *)
(* the calls of getOrCreateSession were given and returned, and            *)
(* conv.entries the entries appended to each session, in the order of the  *)
(* calls.                                                                  *)

\* generateSessionId: an id no session has
FreshId(d) == "s" \o ToString(Cardinality(DOMAIN d.folders) + 1)

TranscriptPaths == {<<"t1">>, <<"t2">>}

ThresholdsKB == {1, 2}

\* a session of transcript t1 after a run of long prompts under a threshold
\* of 1 KB, each segment rotated when it reached the threshold
RECURSIVE LongPrompts(_, _, _)
LongPrompts(d, n, sizeThresholdKB) ==
  IF n = 0 THEN d
  ELSE LongPrompts(appendUserInput(d, "s1", "P916", sizeThresholdKB, 0).d, n - 1,
                   sizeThresholdKB)

LongDisk == LongPrompts(getOrCreateSession(NoDisk, <<"t1">>, "s1", 0).d, LongRotations, 1)

Called(op, sessionId, d, result) ==
  [conv EXCEPT !.d = d, !.prev = conv.d,
               !.last = [op |-> op, sessionId |-> sessionId, result |-> result]]

GetOrCreateSession(transcriptPath) ==
  /\ conv.state = "ready"
  /\ conv.calls < MaxCalls
  /\ FreshId(conv.d) \in SessionIds
  /\ LET r == getOrCreateSession(conv.d, transcriptPath, FreshId(conv.d), conv.calls)
     IN conv' = [Called("getOrCreateSession", r.sessionId, r.d, transcriptPath)
                   EXCEPT !.calls = @ + 1,
                          !.sessions = Append(@, [transcriptPath |-> transcriptPath,
                                                  sessionId |-> r.sessionId])]
  /\ UNCHANGED <<vault, clock, last, queue, running, pass, handed, merge, chunker, hook, disc, agent, detector, parser>>

AppendUserInput(sessionId, prompt) ==
  /\ conv.state = "ready"
  /\ conv.calls < MaxCalls
  /\ LET r == appendUserInput(conv.d, sessionId, prompt, conv.sizeThresholdKB, conv.calls)
     IN conv' = [Called("appendUserInput", sessionId, r.d, r.error)
                   EXCEPT !.calls = @ + 1,
                          !.entries[sessionId] =
                             IF r.error # "none" THEN @
                             ELSE Append(@, formatEntry("USER",
                                              getCurrentTimestamp(conv.calls), prompt, <<>>))]
  /\ UNCHANGED <<vault, clock, last, queue, running, pass, handed, merge, chunker, hook, disc, agent, detector, parser>>

AppendClaudeOutput(sessionId, toolName, action) ==
  /\ conv.state = "ready"
  /\ conv.calls < MaxCalls
  /\ LET r == appendClaudeOutput(conv.d, sessionId, toolName, action, conv.calls)
     IN conv' = [Called("appendClaudeOutput", sessionId, r.d, r.error)
                   EXCEPT !.calls = @ + 1,
                          !.entries[sessionId] =
                             IF r.error # "none" THEN @
                             ELSE Append(@, formatEntry("CLAUDE",
                                              getCurrentTimestamp(conv.calls), action,
                                              <<toolName>>))]
  /\ UNCHANGED <<vault, clock, last, queue, running, pass, handed, merge, chunker, hook, disc, agent, detector, parser>>

GetFullConversation(sessionId) ==
  /\ conv.state = "ready"
  /\ conv' = Called("getFullConversation", sessionId, conv.d,
                    getFullConversation(conv.d, sessionId, conv.calls))
  /\ UNCHANGED <<vault, clock, last, queue, running, pass, handed, merge, chunker, hook, disc, agent, detector, parser>>

InitConv ==
  /\ vault = EmptyVault /\ VaultIdle /\ MergeIdle /\ ChunkerIdle /\ HookIdle /\ DiscIdle /\ RestIdle
  /\ \E kb \in ThresholdsKB, d \in {NoDisk, LongDisk} :
       /\ d = LongDisk => kb = 1
       /\ conv = [state |-> "ready", d |-> d, prev |-> d, sizeThresholdKB |-> kb,
                  calls |-> 0, sessions |-> <<>>,
                  entries |-> [s \in SessionIds |->
                                 IF d = LongDisk /\ s = "s1"
                                 THEN [i \in 1..LongRotations |->
                                         formatEntry("USER", getCurrentTimestamp(0),
                                                     "P916", <<>>)]
                                 ELSE <<>>],
                  last |-> [op |-> "none", sessionId |-> "", result |-> <<>>]]

NextConv ==
  \/ \E transcriptPath \in TranscriptPaths \cup {<<>>} : GetOrCreateSession(transcriptPath)
  \/ \E sessionId \in SessionIds, prompt \in Prompts : AppendUserInput(sessionId, prompt)
  \/ \E sessionId \in SessionIds : AppendClaudeOutput(sessionId, "Edit", "edited a file")
  \/ \E sessionId \in SessionIds : GetFullConversation(sessionId)

SpecConv == InitConv /\ [][NextConv]_vars

-----------------------------------------------------------------------------
(* Reading the disk of the ConversationManager.                            *)

\* the session id session-map.json has under a key: <<>> when it has none
BoundTo(d, key) ==
  LET hits == { i \in 1..Len(d.map) : d.map[i].key = key }
  IN IF hits = {} THEN <<>> ELSE <<d.map[CHOOSE i \in hits : TRUE].state.sessionId>>

HasFolder(d, sessionId) == sessionId \in DOMAIN d.folders

\* the last call made the folder of the session, with segment 0 in it
CreatedFolder(sessionId) ==
  /\ ~HasFolder(conv.prev, sessionId)
  /\ HasFolder(conv.d, sessionId)
  /\ listDir(conv.d, sessionId) = {SegmentName(0)}

\* C14: calls of getOrCreateSession with the same transcript path return
\* the same session id; a call with a path session-map.json has makes no
\* folder and returns the session of the path, a call with a path it does
\* not have makes the folder of a new session with segment 0 and leaves the
\* path bound to the session in session-map.json.
C14_SessionIdentity ==
  conv.state = "ready" =>
    /\ \A i, j \in 1..Len(conv.sessions) :
         (conv.sessions[i].transcriptPath = conv.sessions[j].transcriptPath
            /\ conv.sessions[i].transcriptPath # <<>>) =>
           conv.sessions[i].sessionId = conv.sessions[j].sessionId
    /\ \A i \in 1..Len(conv.sessions) :
         conv.sessions[i].transcriptPath # <<>> =>
           BoundTo(conv.d, conv.sessions[i].transcriptPath) = <<conv.sessions[i].sessionId>>
    /\ (conv.last.op = "getOrCreateSession" /\ conv.last.result # <<>>) =>
         IF BoundTo(conv.prev, conv.last.result) # <<>>
         THEN /\ <<conv.last.sessionId>> = BoundTo(conv.prev, conv.last.result)
              /\ conv.d = conv.prev
         ELSE /\ CreatedFolder(conv.last.sessionId)
              /\ \A s \in SessionIds \ {conv.last.sessionId} :
                   HasFolder(conv.d, s) = HasFolder(conv.prev, s)

\* a second call with a transcript path, after the session of the path has
\* rotated its segment
C14_Witness ==
  /\ conv.state = "ready"
  /\ conv.last.op = "getOrCreateSession"
  /\ Len(conv.sessions) = 2
  /\ conv.sessions[1].transcriptPath = <<"t2">>
  /\ conv.sessions[2].transcriptPath = <<"t2">>
  /\ SegmentName(1) \in listDir(conv.d, conv.last.sessionId)

\* session-map.json has a state of the session
InMap(d, sessionId) == \E i \in 1..Len(d.map) : d.map[i].state.sessionId = sessionId

Appends == {"appendUserInput", "appendClaudeOutput"}

\* C15: appendUserInput and appendClaudeOutput for a session that
\* session-map.json does not have and that has no folder fail with "No
\* session found" and leave every file as it was.
C15_UnknownSessionRejected ==
  (conv.state = "ready" /\ conv.last.op \in Appends
     /\ ~InMap(conv.prev, conv.last.sessionId)
     /\ ~HasFolder(conv.prev, conv.last.sessionId)) =>
    /\ conv.last.result = "No session found"
    /\ conv.d = conv.prev

\* an append for a session nobody made, on a disk that has another session
C15_Witness ==
  /\ conv.state = "ready"
  /\ conv.last.op \in Appends
  /\ ~InMap(conv.prev, conv.last.sessionId)
  /\ ~HasFolder(conv.prev, conv.last.sessionId)
  /\ conv.prev.map # <<>>

\* the index session-map.json has as the current one of a session it has
CurrentIndex(d, sessionId) == getSessionState(d, sessionId, 0)[1].currentFileIndex

\* the size of a segment
SegmentBytes(d, sessionId, index) == Bytes(ReadSegment(d, sessionId, SegmentName(index)))

\* the last call was appendUserInput on a session it found, which ends with
\* checkRotation
CheckedRotation ==
  /\ conv.state = "ready"
  /\ conv.last.op = "appendUserInput"
  /\ conv.last.result = "none"

\* C16: checkRotation, run at the end of appendUserInput, rotates when and
\* only when the current segment has sizeThresholdKB * 1024 bytes or more;
\* it then opens the segment of the next index, one segment only, and makes
\* it the current one; below the threshold the current index and the
\* segments stay as the append left them.
C16_RotationBoundary ==
  CheckedRotation =>
    LET s == conv.last.sessionId
        index == CurrentIndex(conv.prev, s)
        before == listDir(conv.prev, s) \cup {SegmentName(index)}
    IN IF SegmentBytes(conv.d, s, index) >= conv.sizeThresholdKB * 1024
       THEN /\ CurrentIndex(conv.d, s) = index + 1
            /\ listDir(conv.d, s) = before \cup {SegmentName(index + 1)}
       ELSE /\ CurrentIndex(conv.d, s) = index
            /\ listDir(conv.d, s) = before

\* segment 0 reached the threshold exactly and segment 1 was opened
C16_Witness ==
  /\ CheckedRotation
  /\ CurrentIndex(conv.prev, conv.last.sessionId) = 0
  /\ SegmentBytes(conv.d, conv.last.sessionId, 0) = conv.sizeThresholdKB * 1024
  /\ CurrentIndex(conv.d, conv.last.sessionId) = 1

\* the segments of a session from index i on, by rising index
RECURSIVE SegmentsFrom(_, _, _)
SegmentsFrom(d, sessionId, i) ==
  IF i > MaxIndex THEN <<>>
  ELSE (IF SegmentName(i) \in listDir(d, sessionId)
        THEN <<ReadSegment(d, sessionId, SegmentName(i))>> ELSE <<>>)
       \o SegmentsFrom(d, sessionId, i + 1)

\* the atoms of the header createConversation and rotateConversation write
HeaderAtoms(i) == IF i = 0 THEN 7 ELSE 11

\* the segments without their headers
RECURSIVE BodiesFrom(_, _, _)
BodiesFrom(d, sessionId, i) ==
  IF i > MaxIndex THEN <<>>
  ELSE (IF SegmentName(i) \in listDir(d, sessionId)
        THEN <<Drop(ReadSegment(d, sessionId, SegmentName(i)), HeaderAtoms(i))>> ELSE <<>>)
       \o BodiesFrom(d, sessionId, i + 1)

ReadFull == conv.state = "ready" /\ conv.last.op = "getFullConversation"

\* what getFullConversation returned is the segments by rising index with
\* the separator between them, the entries in them are the entries appended
\* in the order of the appends, and it is empty for a session without
\* segments or a session nobody made
FullInOrder ==
  LET s == conv.last.sessionId
  IN /\ conv.last.result = Join(SegmentsFrom(conv.d, s, 0), SegmentSeparator)
     /\ Concat(BodiesFrom(conv.d, s, 0)) = Concat(conv.entries[s])
     /\ listDir(conv.d, s) = {} => conv.last.result = <<>>
     /\ (~InMap(conv.d, s) /\ ~HasFolder(conv.d, s)) => conv.last.result = <<>>

\* segment 0 holds every entry appended to the session
AllInSegmentZero ==
  Drop(ReadSegment(conv.d, conv.last.sessionId, SegmentName(0)), HeaderAtoms(0))
    = Concat(conv.entries[conv.last.sessionId])

EntryBytes(sessionId) == Bytes(Concat(conv.entries[sessionId]))

HeaderBytes(sessionId) ==
  Bytes(Take(ReadSegment(conv.d, sessionId, SegmentName(0)), HeaderAtoms(0)))

\* C17: getFullConversation returns the segments by rising index, segment
\* 10 after segment 9, with the separator between them and the entries in
\* the order they were appended; it returns the empty string for a session
\* without segments and for a session nobody made; and when the header of
\* segment 0 and the entries together have fewer bytes than the threshold,
\* every entry is in segment 0.
C17_FullConversation ==
  ReadFull =>
    /\ FullInOrder
    /\ (HasFolder(conv.d, conv.last.sessionId)
          /\ HeaderBytes(conv.last.sessionId) + EntryBytes(conv.last.sessionId)
               < conv.sizeThresholdKB * 1024) => AllInSegmentZero

\* C17 as the specification has it: when the entries together have fewer
\* bytes than the threshold, every entry is in segment 0.
C17_AsStated ==
  ReadFull =>
    /\ FullInOrder
    /\ (HasFolder(conv.d, conv.last.sessionId)
          /\ EntryBytes(conv.last.sessionId) < conv.sizeThresholdKB * 1024) =>
         AllInSegmentZero

\* a conversation of eleven segments read back
C17_Witness ==
  /\ ReadFull
  /\ SegmentName(LongRotations) \in listDir(conv.d, conv.last.sessionId)
  /\ conv.entries[conv.last.sessionId] # <<>>
  /\ conv.last.result # <<>>

-----------------------------------------------------------------------------
(* The hook handlers.  A handler reads stdin, works on the disk of the     *)
(* project and prints to stdout.  The body of a handler is all that is in  *)
(* its try block: it gives what was printed (out), whether an error was    *)
(* thrown out of the block (thrown), and the disk and the active session   *)
(* it leaves.  A field of the input that is absent is <<>>.                *)

SilentOutput == [continue |-> TRUE, suppressOutput |-> TRUE, additionalContext |-> <<>>]

\* DEFAULT_CONFIG
DefaultSizeThresholdKB == 50
CaptureTools == {"Write", "Edit", "MultiEdit", "Bash", "Task"}

\* input ? JSON.parse(input) : {} followed by data.cwd: a text that is no
\* JSON makes JSON.parse throw, the text null makes data.cwd throw
Parses(stdin) == stdin.kind \in {"empty", "object"}

Thrown(env) == [out |-> <<>>, thrown |-> TRUE, d |-> env.d, active |-> env.active]

Printed(output, d, active) ==
  [out |-> <<output>>, thrown |-> FALSE, d |-> d, active |-> active]

\* try { body } catch { console.log(the silent output) }
Uncaught(body) == body

Caught(body) ==
  IF body.thrown THEN [body EXCEPT !.out = @ \o <<SilentOutput>>, !.thrown = FALSE]
  ELSE body

\* handleUserPrompt: the try block
UserPromptBody(stdin, env) ==
  LET sessionId == env.active
      r == appendUserInput(env.d, sessionId[1], stdin.prompt[1], DefaultSizeThresholdKB, 1)
  IN IF ~Parses(stdin) THEN Thrown(env)
     ELSE IF sessionId # <<>> /\ stdin.prompt # <<>>
     THEN IF r.error # "none" \/ env.ioFails THEN Thrown(env)
          ELSE Printed(SilentOutput, r.d, env.active)
     ELSE Printed(SilentOutput, env.d, env.active)

handleUserPrompt(stdin, env) == Caught(UserPromptBody(stdin, env))

\* formatToolAction: the action
formatToolAction(toolName) ==
  CASE toolName = "Write" -> "Created file: "
    [] toolName \in {"Edit", "MultiEdit"} -> "Modified file: "
    [] toolName = "Bash" -> "Executed: "
    [] toolName = "Task" -> "Spawned agent: "
    [] OTHER -> "Used tool: "

\* handlePostToolUse: the try block
PostToolUseBody(stdin, env) ==
  LET toolName == IF stdin.tool_name = <<>> THEN "" ELSE stdin.tool_name[1]
      sessionId == env.active
      r == appendClaudeOutput(env.d, sessionId[1], toolName, formatToolAction(toolName), 1)
  IN IF ~Parses(stdin) THEN Thrown(env)
     ELSE IF toolName \notin CaptureTools THEN Printed(SilentOutput, env.d, env.active)
     ELSE IF sessionId # <<>> /\ stdin.tool_input # <<>>
     THEN IF r.error # "none" \/ env.ioFails THEN Thrown(env)
          ELSE Printed(SilentOutput, r.d, env.active)
     ELSE Printed(SilentOutput, env.d, env.active)

handlePostToolUse(stdin, env) == Caught(PostToolUseBody(stdin, env))

\* handleSessionStart: the try block; createConversation and
\* setActiveSession write, getVaultOverview reads
SessionStartBody(stdin, env) ==
  LET r == getOrCreateSession(env.d, stdin.transcript_path, FreshId(env.d), 1)
  IN IF ~Parses(stdin) \/ env.ioFails THEN Thrown(env)
     ELSE Printed([SilentOutput EXCEPT !.additionalContext = env.overview],
                  r.d, <<r.sessionId>>)

handleSessionStart(stdin, env) == Caught(SessionStartBody(stdin, env))

\* handleStop: the try block; what runCompactionAsync throws is caught
\* inside it (the earlier handleStop does not wait for it and catches what
\* it rejects with)
StopBody(stdin, env) ==
  IF ~Parses(stdin) THEN Thrown(env)
  ELSE Printed(SilentOutput, env.d, env.active)

handleStop(stdin, env) == Caught(StopBody(stdin, env))

-----------------------------------------------------------------------------
(* A hook process: started by Claude Code with a text on stdin, then the   *)
(* handler runs to its end.                                                *)

Handlers == {"session-start", "user-prompt", "post-tool-use", "stop"}

Absent ==
  [kind |-> "empty", prompt |-> <<>>, tool_name |-> <<>>, tool_input |-> <<>>,
   transcript_path |-> <<>>]

Stdins ==
  { [Absent EXCEPT !.kind = k] : k \in {"empty", "malformed", "null"} } \cup
  { [kind |-> "object", prompt |-> p, tool_name |-> t, tool_input |-> i,
     transcript_path |-> tp] :
      p \in {<<>>, <<"hi">>}, t \in {<<>>, <<"Edit">>, <<"Read">>},
      i \in {<<>>, <<"input">>}, tp \in {<<>>, <<"t1">>} }

\* the disk of a project with one session
OneSession == getOrCreateSession(NoDisk, <<"t1">>, "s1", 0).d

InvokeHook(handler, stdin, env) ==
  /\ hook.state = "idle"
  /\ hook' = [state |-> "started", handler |-> handler, stdin |-> stdin, env |-> env,
              out |-> <<>>, thrown |-> FALSE]
  /\ UNCHANGED <<vault, clock, last, queue, running, pass, handed, merge, chunker, conv, disc, agent, detector, parser>>

HandleHook ==
  /\ hook.state = "started"
  /\ LET r == CASE hook.handler = "session-start" -> handleSessionStart(hook.stdin, hook.env)
                [] hook.handler = "user-prompt" -> handleUserPrompt(hook.stdin, hook.env)
                [] hook.handler = "post-tool-use" -> handlePostToolUse(hook.stdin, hook.env)
                [] hook.handler = "stop" -> handleStop(hook.stdin, hook.env)
     IN hook' = [hook EXCEPT !.state = "done", !.out = r.out, !.thrown = r.thrown,
                             !.env.d = r.d, !.env.active = r.active]
  /\ UNCHANGED <<vault, clock, last, queue, running, pass, handed, merge, chunker, conv, disc, agent, detector, parser>>

InitHook ==
  /\ vault = EmptyVault /\ VaultIdle /\ MergeIdle /\ ChunkerIdle /\ ConvIdle /\ DiscIdle /\ RestIdle
  /\ HookIdle

NextHook ==
  \/ \E handler \in Handlers, stdin \in Stdins, d \in {NoDisk, OneSession},
        active \in {<<>>, <<"s1">>, <<"s2">>}, ioFails \in BOOLEAN,
        overview \in {<<>>, <<"Vault available at cc-knowledge-base/vault/">>} :
       InvokeHook(handler, stdin,
                  [d |-> d, active |-> active, ioFails |-> ioFails, overview |-> overview])
  \/ HandleHook

SpecHook == InitHook /\ [][NextHook]_vars

\* C18: a handler that has run to its end printed one output, with continue
\* and suppressOutput true, and threw nothing: whatever the input, the
\* active session and the disk, and when a write fails.
C18_OneSilentOutput ==
  hook.state = "done" =>
    /\ Len(hook.out) = 1
    /\ hook.out[1].continue
    /\ hook.out[1].suppressOutput
    /\ ~hook.thrown

\* user-prompt with a prompt for an active session that has no state and
\* no folder: appendUserInput threw
C18_Witness ==
  /\ hook.state = "done"
  /\ hook.handler = "user-prompt"
  /\ hook.stdin.prompt # <<>>
  /\ hook.env.active = <<"s2">>
  /\ ~hook.env.ioFails
  /\ Len(hook.out) = 1

-----------------------------------------------------------------------------
(* AutoDiscover.  The files of the project are a function from paths (the  *)
(* sequence of the segments under the project path) to texts; a            *)
(* VaultIntegrator works on the files under the path it was built with.    *)

getVaultPath == <<Seg("cc-knowledge-base"), Seg("vault")>>

IsUnder(root, q) == Len(q) > Len(root) /\ Take(q, Len(root)) = root

\* the files under a path, by their paths under it
Subtree(tree, root) ==
  [p \in { Drop(q, Len(root)) : q \in { q \in DOMAIN tree : IsUnder(root, q) } } |->
     tree[root \o p]]

\* the files with those under a path replaced
Graft(tree, root, v) ==
  [q \in { q \in DOMAIN tree : ~IsUnder(root, q) } \cup { root \o p : p \in DOMAIN v } |->
     IF IsUnder(root, q) THEN v[Drop(q, Len(root))] ELSE tree[q]]

\* VaultIntegrator.processItem
processItem(v, item, now) ==
  CASE item.type = "entity" -> processEntity(v, item, now)
    [] item.type = "service" -> processService(v, item, now)
    [] item.type = "pattern" -> processPattern(v, item)
    [] item.type = "knowledge" -> processKnowledge(v, item)

\* VaultIntegrator.integrate: the loop over the items detected
RECURSIVE ProcessItems(_, _, _)
ProcessItems(v, items, now) ==
  IF items = <<>> THEN v
  ELSE ProcessItems(processItem(v, Head(items), now), Tail(items), now)

\* VaultIntegrator.integrate
integrate(v, summary, now) ==
  IF detect(summary) = <<>> THEN v
  ELSE updateRootIndex(ProcessItems(v, detect(summary), now), now)

\* the path AutoDiscover builds its VaultIntegrator with: the project path
IntegratorRoot == <<>>

\* new VaultIntegrator(root).integrate(summary) on the files of the project
IntegrateAt(tree, root, summary, now) ==
  Graft(tree, root, integrate(Subtree(tree, root), summary, now))

\* integrate, by the integrator AutoDiscover built: the items detected
integrateDetect(d) ==
  [d EXCEPT !.state = "processing", !.items = detect(d.pending.summary),
            !.detected = detect(d.pending.summary) # <<>>]

\* integrate: the call of processItem on the next item
integrateItem(d) ==
  [d EXCEPT !.tree = Graft(@, IntegratorRoot,
                           processItem(Subtree(@, IntegratorRoot), Head(d.items), 1)),
            !.items = Tail(@)]

\* Array.prototype.join(", ")
JoinComma(names) == Join([i \in 1..Len(names) |-> <<names[i]>>], <<", ">>)

\* category.charAt(0).toUpperCase() + category.slice(1)
CategoryTitle(category) ==
  CASE category = "entry" -> "Entry"
    [] category = "model" -> "Model"
    [] category = "service" -> "Service"
    [] category = "util" -> "Util"
    [] category = "config" -> "Config"
    [] category = "test" -> "Test"
    [] category = "other" -> "Other"

\* the categories in the order of their first file
RECURSIVE CategoriesOf(_, _)
CategoriesOf(files, seen) ==
  IF files = <<>> THEN seen
  ELSE CategoriesOf(Tail(files),
         IF \E i \in 1..Len(seen) : seen[i] = Head(files).category THEN seen
         ELSE Append(seen, Head(files).category))

\* the knowledge item of the files of one category
CategoryItem(collection, category) ==
  LET mine == SelectSeq(collection.files, LAMBDA f : f.category = category)
      paths == [i \in 1..Len(mine) |-> mine[i].path]
      shown == IF Len(paths) > 10 THEN Take(paths, 10) ELSE paths
  IN [topic |-> <<CategoryTitle(category), " Files">>,
      details |-> JoinComma(shown) \o
                  (IF Len(paths) > 10
                   THEN <<" (+", ToString(Len(paths) - 10), " more)">> ELSE <<>>)]

\* fallbackDiscovery: the summary
FallbackSummary(collection) ==
  LET listed == SelectSeq(CategoriesOf(collection.files, <<>>),
                          LAMBDA c : c # "other" /\ c # "test")
  IN [entities |-> <<>>, architecture |-> <<>>, services |-> <<>>,
      knowledge |->
        << [topic |-> <<"Project Languages">>, details |-> JoinComma(collection.languages)],
           [topic |-> <<"Project Type">>, details |-> <<collection.projectType>>],
           [topic |-> <<"Source Files Discovered">>,
            details |-> <<ToString(Len(collection.files)), " files categorized by type">>] >>
        \o [i \in 1..Len(listed) |-> CategoryItem(collection, listed[i])]]

\* fallbackDiscovery up to the call of integrate
fallbackDiscovery(d) ==
  [d EXCEPT !.state = "integrating", !.path = "fallback",
            !.pending = [summary |-> FallbackSummary(d.collection),
                         filesAnalyzed |-> Len(d.collection.files),
                         chunksProcessed |-> 0]]

\* createEmptyResult
createEmptyResult(d) ==
  [d EXCEPT !.state = "done", !.path = "empty",
            !.result = [summary |-> [entities |-> <<>>, architecture |-> <<>>,
                                     services |-> <<>>, knowledge |-> <<>>],
                        filesAnalyzed |-> 0, chunksProcessed |-> 0, integrated |-> FALSE]]

\* discover up to the loop over the chunks
discoverStart(d, collection, claudeAvailable, chunks) ==
  LET begun == [d EXCEPT !.collection = collection, !.chunks = chunks]
  IN IF collection.files = <<>> THEN createEmptyResult(begun)
     ELSE IF ~claudeAvailable THEN fallbackDiscovery(begun)
     ELSE [begun EXCEPT !.state = "analyzing"]

\* what a turn of the loop on the chunk of an index does that takes time:
\* the call of the analyzer and, when it succeeded and the chunk is not the
\* last, this.delay(1500)
TurnEvents(index, chunks, outcome) ==
  <<"call">> \o (IF ~outcome.failed /\ index < chunks - 1 THEN <<"delay">> ELSE <<>>)

\* one turn of the loop with what analyzeChunk throws not caught
analyzeTurnUncaught(d, outcome) ==
  IF outcome.failed
  THEN [d EXCEPT !.state = "done", !.path = "thrown", !.thrown = TRUE,
                 !.attempts = Append(@, outcome),
                 !.timeline = @ \o TurnEvents(Len(d.attempts), d.chunks, outcome)]
  ELSE [d EXCEPT !.attempts = Append(@, outcome),
                 !.partialSummaries = Append(@, parseResponse(outcome.response)),
                 !.chunksProcessed = @ + 1,
                 !.timeline = @ \o TurnEvents(Len(d.attempts), d.chunks, outcome)]

\* one turn of the loop with the partial result put before the earlier ones
analyzeTurnUnshift(d, outcome) ==
  IF outcome.failed
  THEN [d EXCEPT !.attempts = Append(@, outcome),
                 !.timeline = @ \o TurnEvents(Len(d.attempts), d.chunks, outcome)]
  ELSE [d EXCEPT !.attempts = Append(@, outcome),
                 !.partialSummaries = <<parseResponse(outcome.response)>> \o @,
                 !.chunksProcessed = @ + 1,
                 !.timeline = @ \o TurnEvents(Len(d.attempts), d.chunks, outcome)]

\* one turn of the loop: analyzeChunk on the next chunk; what it throws is
\* caught and the loop goes on
analyzeTurn(d, outcome) ==
  IF outcome.failed
  THEN [d EXCEPT !.attempts = Append(@, outcome),
                 !.timeline = @ \o TurnEvents(Len(d.attempts), d.chunks, outcome)]
  ELSE [d EXCEPT !.attempts = Append(@, outcome),
                 !.partialSummaries = Append(@, parseResponse(outcome.response)),
                 !.chunksProcessed = @ + 1,
                 !.timeline = @ \o TurnEvents(Len(d.attempts), d.chunks, outcome)]

\* discover after the loop, up to the call of integrate
discoverEnd(d) ==
  IF d.partialSummaries = <<>> THEN fallbackDiscovery(d)
  ELSE [d EXCEPT !.state = "integrating", !.path = "analysis",
                 !.pending = [summary |-> mergeSummaries(d.partialSummaries),
                              filesAnalyzed |-> Len(d.collection.files),
                              chunksProcessed |-> d.chunksProcessed]]

\* integrate after its loop, and the return of discover or fallbackDiscovery
integrateAndReturn(d) ==
  [d EXCEPT !.state = "done",
            !.tree = IF ~d.detected THEN @
                     ELSE Graft(@, IntegratorRoot,
                                updateRootIndex(Subtree(@, IntegratorRoot), 1)),
            !.result = [summary |-> d.pending.summary,
                        filesAnalyzed |-> d.pending.filesAnalyzed,
                        chunksProcessed |-> d.pending.chunksProcessed,
                        integrated |-> TRUE]]

-----------------------------------------------------------------------------
(* A run of discover on a project whose vault has its INDEX.md.            *)

NoFiles == [files |-> <<>>, languages |-> <<>>, projectType |-> "unknown"]

NodeProject ==
  [files |-> << [path |-> "src/index.ts", category |-> "entry"],
                [path |-> "src/user.ts", category |-> "model"],
                [path |-> "src/user.test.ts", category |-> "test"] >>,
   languages |-> <<"typescript">>, projectType |-> "node"]

PlainProject ==
  [files |-> << [path |-> "notes.rb", category |-> "other"] >>,
   languages |-> <<>>, projectType |-> "unknown"]

Collections == {NoFiles, NodeProject, PlainProject}

Outcomes ==
  {[failed |-> TRUE, response |-> <<>>]} \cup
  { [failed |-> FALSE, response |-> r] : r \in {RespEntity, RespEntityLower, RespKnowledge, RespPatternB, RespService} }

InstalledProject == [p \in {getVaultPath \o RootIndex} |-> RootTemplate]

StartDiscover(collection, claudeAvailable, chunks) ==
  /\ disc.state = "ready"
  /\ disc' = discoverStart(disc, collection, claudeAvailable, chunks)
  /\ UNCHANGED <<vault, clock, last, queue, running, pass, handed, merge, chunker, conv, hook, agent, detector, parser>>

AnalyzeTurn(outcome) ==
  /\ disc.state = "analyzing"
  /\ Len(disc.attempts) < disc.chunks
  /\ disc' = analyzeTurn(disc, outcome)
  /\ UNCHANGED <<vault, clock, last, queue, running, pass, handed, merge, chunker, conv, hook, agent, detector, parser>>

EndDiscover ==
  /\ disc.state = "analyzing"
  /\ Len(disc.attempts) = disc.chunks
  /\ disc' = discoverEnd(disc)
  /\ UNCHANGED <<vault, clock, last, queue, running, pass, handed, merge, chunker, conv, hook, agent, detector, parser>>

IntegrateDetect ==
  /\ disc.state = "integrating"
  /\ disc' = integrateDetect(disc)
  /\ UNCHANGED <<vault, clock, last, queue, running, pass, handed, merge, chunker, conv, hook, agent, detector, parser>>

IntegrateItem ==
  /\ disc.state = "processing"
  /\ disc.items # <<>>
  /\ disc' = integrateItem(disc)
  /\ UNCHANGED <<vault, clock, last, queue, running, pass, handed, merge, chunker, conv, hook, agent, detector, parser>>

IntegrateDiscovered ==
  /\ disc.state = "processing"
  /\ disc.items = <<>>
  /\ disc' = integrateAndReturn(disc)
  /\ UNCHANGED <<vault, clock, last, queue, running, pass, handed, merge, chunker, conv, hook, agent, detector, parser>>

InitDisc ==
  /\ vault = EmptyVault /\ VaultIdle /\ MergeIdle /\ ChunkerIdle /\ ConvIdle /\ HookIdle /\ RestIdle
  /\ disc = [state |-> "ready", path |-> "none", collection |-> NoFiles, chunks |-> 0,
             attempts |-> <<>>, partialSummaries |-> <<>>, chunksProcessed |-> 0,
             timeline |-> <<>>, thrown |-> FALSE, tree |-> InstalledProject, items |-> <<>>, detected |-> FALSE,
             pending |-> [summary |-> <<>>, filesAnalyzed |-> 0, chunksProcessed |-> 0],
             result |-> [summary |-> <<>>, filesAnalyzed |-> 0, chunksProcessed |-> 0,
                         integrated |-> FALSE]]

NextDisc ==
  \/ \E collection \in Collections, claudeAvailable \in BOOLEAN, chunks \in 1..MaxBatches :
       StartDiscover(collection, claudeAvailable, chunks)
  \/ \E outcome \in Outcomes : AnalyzeTurn(outcome)
  \/ EndDiscover
  \/ IntegrateDetect
  \/ IntegrateItem
  \/ IntegrateDiscovered

SpecDisc == InitDisc /\ [][NextDisc]_vars

\* the sections of the knowledge document of the vault
VaultKnowledge == readTextFile(disc.tree, getVaultPath \o KnowledgeDoc)

UsedFallback == disc.state = "done" /\ disc.path = "fallback"

\* C19: after a run that used the fallback on a project with files, the
\* knowledge document of the vault has sections, one of them "Project
\* Languages", and the result says integrated.
C19_FallbackFillsKnowledge ==
  (UsedFallback /\ disc.collection.files # <<>>) =>
    /\ disc.result.integrated
    /\ Includes(VaultKnowledge, <<"## ", "Project Languages", NL>>)

\* the summaries of the chunks whose analysis did not fail, in order
Succeeded ==
  LET ok == SelectSeq(disc.attempts, LAMBDA o : ~o.failed)
  IN [i \in 1..Len(ok) |-> parseResponse(ok[i].response)]

\* C20: a run whose analysis of a chunk failed went on: it threw nothing,
\* analyzed every chunk, counted in chunksProcessed the chunks that did not
\* fail, and merged and integrated their summaries.
C20_PartialFailureTolerated ==
  (disc.state = "done" /\ disc.attempts # <<>>) =>
    /\ ~disc.thrown
    /\ Len(disc.attempts) = disc.chunks
    /\ disc.result.chunksProcessed = Len(Succeeded)
    /\ Succeeded # <<>> =>
         /\ disc.result.summary = mergeSummaries(Succeeded)
         /\ disc.result.integrated
         /\ disc.tree = IntegrateAt(InstalledProject, IntegratorRoot, mergeSummaries(Succeeded), 1)

\* the first chunk failed and a later one did not
C20_Witness ==
  /\ disc.state = "done"
  /\ Len(disc.attempts) >= 2
  /\ disc.attempts[1].failed
  /\ ~disc.attempts[Len(disc.attempts)].failed
  /\ disc.result.chunksProcessed = Len(disc.attempts) - 1

-----------------------------------------------------------------------------
(* spawnClaudeAgentWithHandle (utils/claude-sdk.ts).  The state is the one *)
(* the call leaves when it returns the handle: the child spawned, the      *)
(* timer and the heartbeat set, the promise pending.  The events of the    *)
(* child, the timer and the caller's abort() are the actions.              *)

\* resolve(value): a settled promise stays as it is
resolve(a, value) ==
  IF a.promise.status # "pending" THEN a
  ELSE [a EXCEPT !.promise = [status |-> "resolved", value |-> value]]

\* reject(reason)
reject(a, reason) ==
  IF a.promise.status # "pending" THEN a
  ELSE [a EXCEPT !.promise = [status |-> "rejected", value |-> <<reason>>]]

\* cleanup: clearTimeout(timeoutId); clearInterval(heartbeatInterval)
cleanup(a) ==
  [a EXCEPT !.timer = IF @ = "set" THEN "cleared" ELSE @, !.heartbeat = "cleared"]

\* child.stdout.on("data")
onStdout(a, chunk) == [a EXCEPT !.stdout = @ \o <<chunk>>]

\* the timeout callback
onTimeout(a) ==
  reject([a EXCEPT !.timer = "fired", !.timedOut = TRUE, !.killed = TRUE], "timeout")

\* child.on("close")
onClose(a, code) ==
  LET closed == cleanup([a EXCEPT !.child = "closed", !.code = code])
  IN IF a.timedOut \/ a.aborted THEN closed
     ELSE IF code = "0" THEN resolve(closed, Trim(a.stdout))
     ELSE reject(closed, "failed")

\* child.on("error")
onError(a) == reject(cleanup([a EXCEPT !.child = "failed"]), "error")

\* abort
abort(a) ==
  IF ~a.timedOut /\ ~a.aborted
  THEN [a EXCEPT !.aborted = TRUE, !.heartbeat = "cleared", !.killed = TRUE]
  ELSE a

\* the chunks the child writes to its stdout
StdoutChunks == {"ok", " "}

\* the exit code the close event carries: 0, another code, or null when a
\* signal ended the child
ExitCodes == {"0", "1", "null"}

StdoutData(chunk) ==
  /\ agent.child = "running"
  /\ Len(agent.stdout) < MaxChunks
  /\ agent' = onStdout(agent, chunk)
  /\ UNCHANGED <<vault, clock, last, queue, running, pass, handed, merge, chunker, conv, hook,
                 disc, detector, parser>>

\* the child that could not be spawned closes with a code that is not 0, the
\* child a signal ended with null
ChildClose(code) ==
  /\ agent.child \in {"running", "failed"}
  /\ agent.child = "failed" => code = "1"
  /\ code = "null" => agent.killed
  /\ agent' = onClose(agent, code)
  /\ UNCHANGED <<vault, clock, last, queue, running, pass, handed, merge, chunker, conv, hook,
                 disc, detector, parser>>

ChildError ==
  /\ agent.child = "running"
  /\ agent' = onError(agent)
  /\ UNCHANGED <<vault, clock, last, queue, running, pass, handed, merge, chunker, conv, hook,
                 disc, detector, parser>>

Timeout ==
  /\ agent.timer = "set"
  /\ agent' = onTimeout(agent)
  /\ UNCHANGED <<vault, clock, last, queue, running, pass, handed, merge, chunker, conv, hook,
                 disc, detector, parser>>

Abort ==
  /\ agent.state = "spawned"
  /\ agent' = abort(agent)
  /\ UNCHANGED <<vault, clock, last, queue, running, pass, handed, merge, chunker, conv, hook,
                 disc, detector, parser>>

InitAgent ==
  /\ vault = EmptyVault /\ VaultIdle /\ MergeIdle /\ ChunkerIdle
  /\ ConvIdle /\ HookIdle /\ DiscIdle /\ DetectorIdle /\ ParserIdle
  /\ agent = [state |-> "spawned", child |-> "running", code |-> "none", killed |-> FALSE,
              timer |-> "set", heartbeat |-> "set", timedOut |-> FALSE, aborted |-> FALSE,
              stdout |-> <<>>, promise |-> [status |-> "pending", value |-> <<>>]]

NextAgent ==
  \/ \E chunk \in StdoutChunks : StdoutData(chunk)
  \/ \E code \in ExitCodes : ChildClose(code)
  \/ ChildError
  \/ Timeout
  \/ Abort

\* the timer, once set and not cleared, fires; the child closes
SpecAgent ==
  /\ InitAgent /\ [][NextAgent]_vars
  /\ WF_vars(Timeout)
  /\ WF_vars(\E code \in ExitCodes : ChildClose(code))

\* C21: the promise of every call settles in the end.
C21_EveryCallSettles == <>(agent.promise.status # "pending")

-----------------------------------------------------------------------------
(* The placements of the classifier and the folders the pass writes.       *)

\* the folder a placement path names
PlacementFolder(vaultPath) == SplitOn(vaultPath, "/")

\* C22: after processEntity, the attributes document and the manifest of the
\* entity are in the folder its placement names, entities/{lowercase(name)}.
C22_EntityFolderIsPlacement ==
  last.op = "processEntity" =>
    /\ last.item.vaultPath = <<"entities", "/">> \o ToLowerCase(last.item.name)
    /\ fileExists(vault, PlacementFolder(last.item.vaultPath) \o <<Seg("attributes.md")>>)
    /\ fileExists(vault, IndexPath(PlacementFolder(last.item.vaultPath)))

-----------------------------------------------------------------------------
(* EntityDetector.detect on the summaries of a bounded set.                *)

SeqsUpTo(S, n) == UNION { [1..k -> S] : k \in 0..n }

EntityNamed(name) ==
  [name |-> name, location |-> <<>>, attributes |-> <<>>, relations |-> <<>>]

ServiceNamed(name, location) ==
  [name |-> name, location |-> location, purpose |-> <<>>, methods |-> <<>>]

\* the entities of the summaries
DetectEntities == { EntityNamed(n) : n \in {<<"A">>, <<"B">>} }

\* the services of the summaries: the name of an entity followed by a
\* suffix, with a blank between them, alone, after a suffix, two names of
\* entities, and a name that holds none
DetectServices ==
  { ServiceNamed(n, l) :
      n \in {<<"A", "S">>, <<"A", " ", "S">>, <<"A">>, <<"S", "A">>, <<"A", "B">>, <<"S">>},
      l \in {<<>>, <<"src/", "b", "/s.ts">>} }

DetectSummaries ==
  { [entities |-> es, architecture |-> <<>>, services |-> ss, knowledge |-> <<>>] :
      es \in SeqsUpTo(DetectEntities, MaxEntities),
      ss \in SeqsUpTo(DetectServices, MaxServices) }

Detect(summary) ==
  /\ detector.state = "ready"
  /\ detector' = [state |-> "done", summary |-> summary, items |-> detect(summary)]
  /\ UNCHANGED <<vault, clock, last, queue, running, pass, handed, merge, chunker, conv, hook,
                 disc, agent, parser>>

InitDetect ==
  /\ vault = EmptyVault /\ VaultIdle /\ MergeIdle /\ ChunkerIdle
  /\ ConvIdle /\ HookIdle /\ DiscIdle /\ AgentIdle /\ ParserIdle
  /\ detector = [state |-> "ready"]

NextDetect == \E summary \in DetectSummaries : Detect(summary)

SpecDetect == InitDetect /\ [][NextDetect]_vars

Detected == detector.state = "done"

\* the service items detect returned for a service record
ItemsOf(service) ==
  { k \in 1..Len(detector.items) :
      detector.items[k].type = "service" /\ detector.items[k].data = service }

NameContains(entity, service) ==
  Includes(ToLowerCase(service.name), ToLowerCase(entity.name))

\* the lower-case name of the service without the first place the lower-case
\* name of the entity stands at, its leading and trailing white space removed
ServiceSuffix(entity, service) ==
  LET n == ToLowerCase(service.name)
      e == ToLowerCase(entity.name)
      at == { i \in 1..Len(n) : MatchAt(n, i, e) }
      i == CHOOSE x \in at : \A y \in at : x <= y
  IN Trim(Take(n, i - 1) \o Drop(n, i + Len(e) - 1))

SubServicePath(entity, service) ==
  <<"entities", "/">> \o ToLowerCase(entity.name) \o <<"/", "services", "/">> \o
  (IF ServiceSuffix(entity, service) = <<>> THEN <<"service">>
   ELSE ServiceSuffix(entity, service))

RelatedToSome(service) ==
  \E i \in 1..Len(detector.summary.entities) :
    Related(detector.summary.entities[i], service)

\* C24: of a summary whose records have distinct keys, every service record
\* has exactly one service item: under the services of one entity when its
\* name or location contains the name of an entity, at
\* services/{lowercase(name)} otherwise.
C24_OnePlacementPerService ==
  (Detected /\ NoDuplicateKeys(detector.summary)) =>
    \A j \in 1..Len(detector.summary.services) :
      LET service == detector.summary.services[j]
      IN /\ Cardinality(ItemsOf(service)) = 1
         /\ \A k \in ItemsOf(service) :
              IF RelatedToSome(service)
              THEN MatchAt(detector.items[k].vaultPath, 1, <<"entities", "/">>)
              ELSE detector.items[k].vaultPath =
                     <<"services", "/">> \o ToLowerCase(service.name)

-----------------------------------------------------------------------------
(* parseSummary (CompactionEngine) and parseResponse (AutoDiscover) on the *)
(* texts made of up to MaxParts lines: a line of prose, a section header,  *)
(* or a field of a record.                                                 *)

ProseLine == [kind |-> "prose", label |-> "", value |-> <<"Here is the summary.">>]

HeaderLine(title) == [kind |-> "header", label |-> title, value |-> <<>>]

FieldLine(label, value) == [kind |-> "field", label |-> label, value |-> value]

ParseLines ==
  {ProseLine, HeaderLine("Entities"), HeaderLine("Knowledge"), HeaderLine("Notes"),
   FieldLine("**Name**:", <<"A">>), FieldLine("**Location**:", <<"l">>),
   FieldLine("**Topic**:", <<"T">>), FieldLine("**Details**:", <<"d">>)}

\* the text of a line
LineText(line) ==
  CASE line.kind = "prose" -> line.value \o <<NL>>
    [] line.kind = "header" -> <<"## ", line.label, NL>>
    [] line.kind = "field" -> Field(line.label, line.value)

TextOf(lines) == Concat([i \in 1..Len(lines) |-> LineText(lines[i])])

ParseSummary(lines) ==
  /\ parser.state = "ready"
  /\ parser' = [state |-> "done", by |-> "parseSummary", lines |-> lines,
                summary |-> parseSummary(TextOf(lines))]
  /\ UNCHANGED <<vault, clock, last, queue, running, pass, handed, merge, chunker, conv, hook,
                 disc, agent, detector>>

ParseResponse(lines) ==
  /\ parser.state = "ready"
  /\ parser' = [state |-> "done", by |-> "parseResponse", lines |-> lines,
                summary |-> parseResponse(TextOf(lines))]
  /\ UNCHANGED <<vault, clock, last, queue, running, pass, handed, merge, chunker, conv, hook,
                 disc, agent, detector>>

InitParse ==
  /\ vault = EmptyVault /\ VaultIdle /\ MergeIdle /\ ChunkerIdle
  /\ ConvIdle /\ HookIdle /\ DiscIdle /\ AgentIdle /\ DetectorIdle
  /\ parser = [state |-> "ready"]

NextParse ==
  \/ \E lines \in SeqsUpTo(ParseLines, MaxParts) : ParseSummary(lines)
  \/ \E lines \in SeqsUpTo(ParseLines, MaxParts) : ParseResponse(lines)

SpecParse == InitParse /\ [][NextParse]_vars

Parsed == parser.state = "done"

\* the positions of the headers with a title
HeadersOf(lines, title) ==
  { i \in 1..Len(lines) : lines[i].kind = "header" /\ lines[i].label = title }

\* the lines of the first section with a title: those after its header, up
\* to the next header
SectionLines(lines, title) ==
  LET first == CHOOSE i \in HeadersOf(lines, title) :
                 \A j \in HeadersOf(lines, title) : i <= j
      later == { j \in (first + 1)..Len(lines) : lines[j].kind = "header" }
      next == CHOOSE j \in later : \A q \in later : j <= q
  IN IF HeadersOf(lines, title) = {} THEN <<>>
     ELSE SubSeq(lines, first + 1, IF later = {} THEN Len(lines) ELSE next - 1)

\* the positions of the primary fields of the lines of a section
PrimaryAt(section, primary) ==
  { i \in 1..Len(section) : section[i].kind = "field" /\ section[i].label = primary }

\* the block a primary field opens: its line and the lines up to the next
\* primary field
BlockFrom(section, primary, i) ==
  LET later == { j \in PrimaryAt(section, primary) : j > i }
      next == CHOOSE j \in later : \A q \in later : j <= q
  IN SubSeq(section, i, IF later = {} THEN Len(section) ELSE next - 1)

\* the value of the first field of a block with a label, "" when it has none
ValueIn(block, label) ==
  LET at == { i \in 1..Len(block) : block[i].kind = "field" /\ block[i].label = label }
      i == CHOOSE x \in at : \A y \in at : x <= y
  IN IF at = {} THEN <<>> ELSE block[i].value

\* the i-th least member of a set of numbers
RECURSIVE Nth(_, _)
Nth(S, i) ==
  LET least == CHOOSE x \in S : \A y \in S : x <= y
  IN IF i = 1 THEN least ELSE Nth(S \ {least}, i - 1)

\* the blocks of a section that have their primary field, in order
BlocksOf(section, primary) ==
  [i \in 1..Cardinality(PrimaryAt(section, primary)) |->
     BlockFrom(section, primary, Nth(PrimaryAt(section, primary), i))]

ExpectedEntities(lines) ==
  LET blocks == BlocksOf(SectionLines(lines, "Entities"), "**Name**:")
  IN [i \in 1..Len(blocks) |->
        [name |-> ValueIn(blocks[i], "**Name**:"),
         location |-> ValueIn(blocks[i], "**Location**:"),
         attributes |-> <<>>, relations |-> <<>>]]

ExpectedKnowledge(lines) ==
  LET blocks == BlocksOf(SectionLines(lines, "Knowledge"), "**Topic**:")
  IN [i \in 1..Len(blocks) |->
        [topic |-> ValueIn(blocks[i], "**Topic**:"),
         details |-> ValueIn(blocks[i], "**Details**:")]]

\* C25: the parser returns a result for every text; the list of a category
\* is empty when the text has no section of it, and holds one record for each
\* block of the first section of it that has its primary field, in order:
\* the lines before the first primary field, the lines before the section
\* and the lines of the sections with other titles give no record.
C25_ParserTotal ==
  Parsed =>
    /\ parser.summary.entities = ExpectedEntities(parser.lines)
    /\ parser.summary.knowledge = ExpectedKnowledge(parser.lines)
    /\ parser.summary.services = <<>>
    /\ parser.summary.architecture = <<>>
    /\ HeadersOf(parser.lines, "Entities") = {} => parser.summary.entities = <<>>
    /\ HeadersOf(parser.lines, "Knowledge") = {} => parser.summary.knowledge = <<>>

-----------------------------------------------------------------------------
(* The manifests after a pass: the rows for what the pass wrote, and the   *)
(* documents the links lead to from the root manifest.                     *)

\* the items of the pass
PassItems == detect(pass.summary)

\* the files the pass wrote: new, or with another content than before it
Written ==
  { p \in DOMAIN vault : p \notin DOMAIN pass.before \/ vault[p] # pass.before[p] }

IsManifest(p) == p[Len(p)] = Seg("INDEX.md")

FolderOfFile(p) == Take(p, Len(p) - 1)

\* the link paths of the rows of a manifest
RowPaths(t) == { LinkMatch(RowLines(t)[i]).path : i \in 1..Len(RowLines(t)) }

\* the folder of an entity, as processEntity writes it
EntityFolder(item) == <<Seg("entities"), item.name>>

\* the folder of the document of a service
ServiceFolder(item) == FolderOfFile(PlacementFolder(item.vaultPath))

\* the entity received a sub-service in the pass
ReceivedSubService(item) ==
  \E i \in 1..Len(PassItems) :
    /\ PassItems[i].type = "service"
    /\ Len(ServiceFolder(PassItems[i])) = 3
    /\ ServiceFolder(PassItems[i])[2] = ToLowerCase(item.name)

\* the entities manifest lists every integrated entity
EntitiesListed ==
  \A i \in 1..Len(PassItems) :
    PassItems[i].type = "entity" =>
      PassItems[i].name \in RowNames(Manifest(vault, EntitiesFolder))

\* a services manifest lists every service written in it
ServicesListed ==
  \A i \in 1..Len(PassItems) :
    PassItems[i].type = "service" =>
      PassItems[i].name \in RowNames(Manifest(vault, ServiceFolder(PassItems[i])))

\* an entity has its attributes row, and its services row when it received
\* a sub-service
EntityRowsListed ==
  \A i \in 1..Len(PassItems) :
    PassItems[i].type = "entity" =>
      /\ <<"attributes">> \in RowNames(Manifest(vault, EntityFolder(PassItems[i])))
      /\ ReceivedSubService(PassItems[i]) =>
           <<"services">> \in RowNames(Manifest(vault, EntityFolder(PassItems[i])))

\* the manifest of a folder has a row for each document the pass wrote into
\* it and for each sub-folder the pass made in it
WrittenListed ==
  \A p \in Written :
    /\ ~IsManifest(p) =>
         <<"./">> \o p[Len(p)] \in RowPaths(Manifest(vault, FolderOfFile(p)))
    /\ \A k \in 1..(Len(p) - 1) :
         (\A q \in DOMAIN pass.before : ~IsUnder(Take(p, k), q)) =>
           <<"./">> \o p[k] \o <<"/INDEX.md">> \in RowPaths(Manifest(vault, Take(p, k - 1)))

\* the pass ran on the vault of the installer
OnInstalledVault == handed.via = "compaction"

\* C26: when a pass completes, the manifest of every folder has a row for
\* each document and each sub-folder the pass wrote into it: the entities
\* manifest lists every integrated entity, a services manifest every service
\* written in it, and the manifest of an entity that received a sub-service
\* has its attributes row and its services row.
C26_ManifestsListWhatWasWritten ==
  (PassDone /\ OnInstalledVault) =>
    EntitiesListed /\ ServicesListed /\ EntityRowsListed /\ WrittenListed

\* the file a link of the manifest of a folder leads to
Resolve(folder, linkPath) ==
  LET rest == IF linkPath # <<>> /\ Head(linkPath) = "./" THEN Tail(linkPath) ELSE linkPath
  IN IF rest # <<>> /\ rest[Len(rest)] = "/INDEX.md"
     THEN folder \o <<Take(rest, Len(rest) - 1), Seg("INDEX.md")>>
     ELSE folder \o <<rest>>

\* the files the links of the manifests among some files lead to
LinkedFrom(v, files) ==
  UNION { { Resolve(FolderOfFile(m), path) : path \in RowPaths(v[m]) } :
          m \in { f \in files : f \in DOMAIN v /\ IsManifest(f) } }

\* the files reached from some files by following links, manifest by manifest
RECURSIVE Reach(_, _)
Reach(v, files) ==
  IF LinkedFrom(v, files) \subseteq files THEN files
  ELSE Reach(v, files \cup LinkedFrom(v, files))

\* C27: on the vault of the installer, when a pass completes, every document
\* the pass wrote is reached from the root manifest by following the links
\* of the manifests folder by folder.
C27_WrittenIsReachable ==
  (PassDone /\ OnInstalledVault) =>
    \A p \in Written : ~IsManifest(p) => p \in Reach(vault, {RootIndex})

-----------------------------------------------------------------------------
(* The files a discovery run writes in the project.                        *)

\* the files of the project the run wrote: new, or with another content
\* than the installed project had
DiscoveryWritten ==
  { p \in DOMAIN disc.tree :
      p \notin DOMAIN InstalledProject \/ disc.tree[p] # InstalledProject[p] }

\* C28: every document and manifest a discovery run wrote, on the normal path
\* and on the fallback path, lies under the vault root
\* <project>/cc-knowledge-base/vault.
C28_DiscoveryWritesUnderVault ==
  \A p \in DiscoveryWritten : IsUnder(getVaultPath, p)

-----------------------------------------------------------------------------
(* Calls that create sessions and append to them, the entries of the agent *)
(* short and long: a long action after the header of segment 0 and a short *)
(* prompt brings the segment to 1 KB.                                      *)

ToolActions == {"edited a file", "A903"}

NextAppend ==
  \/ \E transcriptPath \in TranscriptPaths \cup {<<>>} : GetOrCreateSession(transcriptPath)
  \/ \E sessionId \in SessionIds, prompt \in Prompts : AppendUserInput(sessionId, prompt)
  \/ \E sessionId \in SessionIds, action \in ToolActions :
       AppendClaudeOutput(sessionId, "Edit", action)

SpecAppend == InitConv /\ [][NextAppend]_vars

\* the last call was an append on a session it found
Appended ==
  /\ conv.state = "ready"
  /\ conv.last.op \in Appends
  /\ conv.last.result = "none"

\* C29: after an append returns, of a user entry or of an entry of the
\* agent, the rotation check has run: when the segment the entry was written
\* to has sizeThresholdKB * 1024 bytes or more, the segment of the next index
\* exists and is the current one.
C29_RotationCheckedAfterAppend ==
  Appended =>
    LET s == conv.last.sessionId
        index == CurrentIndex(conv.prev, s)
    IN SegmentBytes(conv.d, s, index) >= conv.sizeThresholdKB * 1024 =>
         /\ CurrentIndex(conv.d, s) = index + 1
         /\ SegmentName(index + 1) \in listDir(conv.d, s)

\* the sessions of a disk
SessionsOf(d) == { s \in SessionIds : getSessionState(d, s, 0) # <<>> }

\* the indexes of the segments of a session
SegmentIndexes(d, sessionId) ==
  { parseInt(f) : f \in { g \in listDir(d, sessionId) : endsWithTxt(g) } }

\* the segments of a session below its current index are as they were
\* before the last call, and its current index is not lower
RotatedKept(sessionId) ==
  /\ CurrentIndex(conv.d, sessionId) >= CurrentIndex(conv.prev, sessionId)
  /\ \A i \in 0..(CurrentIndex(conv.prev, sessionId) - 1) :
       ReadSegment(conv.d, sessionId, SegmentName(i)) =
         ReadSegment(conv.prev, sessionId, SegmentName(i))

\* the current index of a session is the highest index of its segments
CurrentIsHighest(sessionId) ==
  /\ CurrentIndex(conv.d, sessionId) \in SegmentIndexes(conv.d, sessionId)
  /\ \A i \in SegmentIndexes(conv.d, sessionId) : i <= CurrentIndex(conv.d, sessionId)

\* C30: a call leaves every segment below the current index of a session as
\* it was and never lowers the current index, so that a segment once rotated
\* keeps its content in every later state; the current index recorded for a
\* session is the highest index of its segments.
C30_RotatedSegmentsImmutable ==
  conv.state = "ready" =>
    /\ \A s \in SessionsOf(conv.prev) : RotatedKept(s)
    /\ \A s \in SessionsOf(conv.d) : CurrentIsHighest(s)

\* an append to a session with a rotated segment, which wrote to the disk
C30_Witness ==
  /\ Appended
  /\ CurrentIndex(conv.prev, conv.last.sessionId) >= 1
  /\ conv.d # conv.prev
  /\ SegmentBytes(conv.prev, conv.last.sessionId, 0) >= conv.sizeThresholdKB * 1024

-----------------------------------------------------------------------------
(* CompactionEngine (core/compaction-engine.ts).                           *)

SUMMARIZATION_PROMPT == <<"You are a technical knowledge extractor.", NL, "CONVERSATION LOG:", NL>>

\* line.match(/(?:Created|Modified|Edited).*?:\s*(.+\.(?:ts|js|tsx|jsx|md))/i):
\* the capture, for the lines of the model
FileMatch(line) ==
  IF \E i \in 1..Len(line) : line[i] = "Modified file: src/a.ts" THEN <<"src/a.ts">>
  ELSE <<>>

\* line.includes("[TOOL:")
IsToolLine(line) == \E i \in 1..Len(line) : line[i] = "[TOOL:"

\* [...new Set(files)]: each file once, at its first place
RECURSIVE Unique(_)
Unique(xs) ==
  IF xs = <<>> THEN <<>>
  ELSE LET rest == Unique(Take(xs, Len(xs) - 1))
           x == xs[Len(xs)]
       IN IF \E i \in 1..Len(rest) : rest[i] = x THEN rest ELSE Append(rest, x)

\* fallbackExtraction
fallbackExtraction(conversation) ==
  LET lines == SplitOn(conversation, NL)
      hasFile(l) == FileMatch(l) # <<>>
      fileLines == SelectSeq(lines, hasFile)
      files == Unique([i \in 1..Len(fileLines) |-> FileMatch(fileLines[i])])
      actions == SelectSeq(lines, IsToolLine)
      shown == Take(actions, IF Len(actions) < 20 THEN Len(actions) ELSE 20)
  IN <<"# ", "Session Summary", NL, NL>> \o
     (IF files # <<>>
      THEN <<"## ", "Files Modified", NL>> \o BulletLines(files) \o <<NL>>
      ELSE <<>>) \o
     (IF actions # <<>>
      THEN <<"## ", "Actions", NL>> \o BulletLines(shown)
      ELSE <<>>)

\* generateSummary: what spawnClaudeAgent resolves with, or the fallback
\* when it rejects
generateSummary(conversation, outcome) ==
  IF outcome.failed THEN fallbackExtraction(conversation) ELSE outcome.response

\* writeSummary: the content of summary.md
SummaryFile(sessionId, content, now) ==
  <<"# Session Summary: ", sessionId, NL, "Generated: ", getCurrentTimestamp(now), NL, NL>> \o
  content \o <<NL>>

SummaryName == <<"summary.md">>

ArchiveName == <<"raw.txt.gz">>

writeSummary(d, sessionId, content, now) ==
  PutSegment(d, sessionId, SummaryName, SummaryFile(sessionId, content, now))

\* files.filter((f) => /^\d+\.txt$/.test(f)) on fs.readdir(sessionPath)
conversationFiles(d, sessionId) == { f \in listDir(d, sessionId) : endsWithTxt(f) }

\* zlib.gzip: the header of the format, then the text it holds
Gzip(text) == <<"1f8b">> \o text

Gunzip(bytes) == Tail(bytes)

\* archiveConversationFiles: the text that is compressed
Combined(d, sessionId, files) ==
  LET sorted == SortByName(files)
      read == SelectSeq(sorted, LAMBDA f : ReadSegment(d, sessionId, f) # <<>>)
      contents == [i \in 1..Len(read) |->
                     <<"=== ">> \o read[i] \o <<" ===", NL>> \o
                     ReadSegment(d, sessionId, read[i])]
  IN Join(contents, <<NL, NL>>)

\* fs.unlink
Unlink(d, folder, name) ==
  [d EXCEPT !.folders[folder] =
     [n \in DOMAIN d.folders[folder] \ {name} |-> d.folders[folder][n]]]

-----------------------------------------------------------------------------
(* The stop hook (hooks/stop.ts), step by step: handleStop, the compaction *)
(* it starts (runCompactionAsync, compact, integrate), and a capture hook  *)
(* that runs after it.  src/src/hooks/stop.ts holds handleStop twice: one  *)
(* that starts runCompactionAsync and prints at once, one that awaits it   *)
(* before it prints; a build has one of the two.                           *)

StopVariants == {"detached", "awaited"}

DefaultConfig == [trigger |-> "session_end", cleanupAfterSummary |-> "keep", autoIntegrate |-> TRUE]

StopConfigs ==
  { [DefaultConfig EXCEPT !.cleanupAfterSummary = m] : m \in {"keep", "archive", "delete"} } \cup
  { [DefaultConfig EXCEPT !.trigger = "manual"], [DefaultConfig EXCEPT !.autoIntegrate = FALSE] }

\* what spawnClaudeAgent does: it rejects, or resolves with a text
AnalyzerOutcomes ==
  { [failed |-> TRUE, response |-> <<>>] } \cup
  { [failed |-> FALSE, response |-> r] : r \in {<<>>, RespService, RespKnowledge} }

\* the call that throws in the run, if any
StopFaults == {"none", "writeSummary", "archive", "unlink", "integrate"}

\* a session with a prompt and an edit of a file
TalkDisk ==
  appendClaudeOutput(appendUserInput(OneSession, "s1", "hi", DefaultSizeThresholdKB, 1).d,
                     "s1", "Edit", "Modified file: src/a.ts", 2).d

\* a session whose first prompt filled segment 0 up to 50 KB: two segments
BigDisk == appendUserInput(OneSession, "s1", "P51092", DefaultSizeThresholdKB, 1).d

\* a prompt of two lines, each holding the text "[TOOL:"
CraftedPrompt == <<"[TOOL:", "## ", "Entities", NL, "[TOOL:", "**Name**:", " ", "A">>

\* a session whose one entry is that prompt (appendUserInput)
CraftDisk ==
  PutSegment(OneSession, "s1", SegmentName(0),
             ReadSegment(OneSession, "s1", SegmentName(0)) \o
             <<"[", "USER", "]", "[", getCurrentTimestamp(1), "]", NL>> \o CraftedPrompt \o
             <<NL, "---", NL, NL>>)

StopDisks == {OneSession, TalkDisk, BigDisk, CraftDisk}

Terminal == {"finished", "failed"}

InvokeStop(variant, config, outcome, fault, d, active) ==
  /\ hook.state = "ready"
  /\ hook' = [state |-> "invoked", stage |-> "none", variant |-> variant, config |-> config,
              outcome |-> outcome, fault |-> fault,
              env |-> [d |-> d, active |-> active, ioFails |-> FALSE, overview |-> <<>>],
              start |-> d, closed |-> d, out |-> <<>>, events |-> <<>>, sessionId |-> "",
              conversation |-> <<>>, prompt |-> <<>>, summaryContent |-> <<>>,
              summary |-> <<>>, result |-> "pending", files |-> <<>>, captured |-> "none"]
  /\ UNCHANGED <<vault, clock, last, queue, running, pass, handed, merge, chunker, conv, disc,
                 agent, detector, parser>>

StopStep(h) ==
  /\ hook' = h
  /\ UNCHANGED <<vault, clock, last, queue, running, pass, handed, merge, chunker, conv, disc,
                 agent, detector, parser>>

\* handleStop up to the call of runCompactionAsync
GetActiveSession ==
  /\ hook.state = "invoked"
  /\ StopStep(IF hook.env.active = <<>>
              THEN [hook EXCEPT !.state = "returned", !.out = @ \o <<SilentOutput>>,
                                !.events = @ \o <<"output">>, !.stage = "finished",
                                !.result = "none"]
              ELSE [hook EXCEPT !.state = IF hook.variant = "detached" THEN "printing"
                                          ELSE "waiting",
                                !.stage = "config", !.sessionId = hook.env.active[1]])

\* handleStop: console.log of the output, at once or after the await
PrintOutput ==
  /\ \/ hook.state = "printing"
     \/ hook.state = "waiting" /\ hook.stage \in Terminal
  /\ StopStep([hook EXCEPT !.state = "returned", !.out = @ \o <<SilentOutput>>,
                           !.events = @ \o <<"output">>])

\* runCompactionAsync goes on after its first await
Compacting(stage) ==
  /\ hook.state \in {"waiting", "returned"}
  /\ hook.stage = stage

\* runCompactionAsync: loadConfig and the test of the trigger
LoadConfig ==
  /\ Compacting("config")
  /\ StopStep(IF hook.config.trigger # "session_end"
              THEN [hook EXCEPT !.stage = "finished", !.result = "none"]
              ELSE [hook EXCEPT !.stage = "read"])

\* runCompactionAsync: getFullConversation and the test of its length
ReadConversation ==
  /\ Compacting("read")
  /\ LET conversation == getFullConversation(hook.env.d, hook.sessionId, 3)
     IN StopStep(IF conversation = <<>> \/ Bytes(conversation) < 100
                 THEN [hook EXCEPT !.stage = "finished", !.result = "none",
                                   !.events = @ \o <<"read">>]
                 ELSE [hook EXCEPT !.stage = "analyze", !.conversation = conversation,
                                   !.events = @ \o <<"read">>])

\* compact: generateSummary, and parseSummary of what it returns
CallAnalyzer ==
  /\ Compacting("analyze")
  /\ LET summaryContent == generateSummary(hook.conversation, hook.outcome)
     IN StopStep(IF summaryContent = <<>>
                 THEN [hook EXCEPT !.stage = "finished", !.result = "null",
                                   !.prompt = SUMMARIZATION_PROMPT \o hook.conversation,
                                   !.events = @ \o <<"analyzer">>]
                 ELSE [hook EXCEPT !.stage = "summarize", !.summaryContent = summaryContent,
                                   !.summary = parseSummary(summaryContent),
                                   !.prompt = SUMMARIZATION_PROMPT \o hook.conversation,
                                   !.events = @ \o <<"analyzer">>])

\* compact: writeSummary; what it throws is caught by compact, which returns null
WriteSummary ==
  /\ Compacting("summarize")
  /\ StopStep(IF hook.fault = "writeSummary"
              THEN [hook EXCEPT !.stage = "finished", !.result = "null"]
              ELSE [hook EXCEPT !.stage = "cleanup",
                                !.env.d = writeSummary(@, hook.sessionId, hook.summaryContent, 3),
                                !.events = @ \o <<"summary">>])

\* cleanupConversationFiles deleting the files whether or not the archive
\* was written
CleanupDeletesAnyway ==
  /\ Compacting("cleanup")
  /\ LET mode == hook.config.cleanupAfterSummary
         files == conversationFiles(hook.env.d, hook.sessionId)
     IN StopStep(
          IF mode = "keep" \/ files = {}
          THEN [hook EXCEPT !.stage = "integrate", !.result = "summary"]
          ELSE IF mode = "archive" /\ hook.fault # "archive"
          THEN [hook EXCEPT !.stage = "deleting", !.files = SortByName(files),
                            !.env.d = PutSegment(@, hook.sessionId, ArchiveName,
                                        Gzip(Combined(@, hook.sessionId, files))),
                            !.events = @ \o <<"archive">>]
          ELSE [hook EXCEPT !.stage = "deleting", !.files = SortByName(files)])

\* cleanupConversationFiles, and archiveConversationFiles up to the archive
CleanupConversationFiles ==
  /\ Compacting("cleanup")
  /\ LET mode == hook.config.cleanupAfterSummary
         files == conversationFiles(hook.env.d, hook.sessionId)
     IN StopStep(
          IF mode = "keep" \/ files = {}
          THEN [hook EXCEPT !.stage = "integrate", !.result = "summary"]
          ELSE IF mode = "archive" /\ hook.fault = "archive"
          THEN [hook EXCEPT !.stage = "integrate", !.result = "summary"]
          ELSE IF mode = "archive"
          THEN [hook EXCEPT !.stage = "deleting", !.files = SortByName(files),
                            !.env.d = PutSegment(@, hook.sessionId, ArchiveName,
                                        Gzip(Combined(@, hook.sessionId, files))),
                            !.events = @ \o <<"archive">>]
          ELSE [hook EXCEPT !.stage = "deleting", !.files = SortByName(files)])

\* deleteConversationFiles: one turn of the loop; an unlink that throws is
\* ignored
DeleteFile ==
  /\ Compacting("deleting")
  /\ hook.files # <<>>
  /\ StopStep(IF hook.fault = "unlink"
              THEN [hook EXCEPT !.files = Tail(@)]
              ELSE [hook EXCEPT !.files = Tail(@),
                                !.env.d = Unlink(@, hook.sessionId, Head(hook.files)),
                                !.events = @ \o <<"unlink">>])

\* compact returns the summary
CompactReturns ==
  /\ Compacting("deleting")
  /\ hook.files = <<>>
  /\ StopStep([hook EXCEPT !.stage = "integrate", !.result = "summary"])

\* runCompactionAsync: integrate, when autoIntegrate is set; integrate
\* returns at once when nothing is detected
Integrate ==
  /\ Compacting("integrate")
  /\ hook' = IF ~hook.config.autoIntegrate THEN [hook EXCEPT !.stage = "finished"]
             ELSE IF hook.fault = "integrate"
             THEN [hook EXCEPT !.stage = "failed", !.events = @ \o <<"integrate">>]
             ELSE [hook EXCEPT !.stage = "integrating", !.events = @ \o <<"integrate">>]
  /\ queue' = IF hook.config.autoIntegrate /\ hook.fault # "integrate"
              THEN detect(hook.summary) ELSE <<>>
  /\ running' = (hook.config.autoIntegrate /\ hook.fault # "integrate"
                 /\ detect(hook.summary) # <<>>)
  /\ UNCHANGED <<vault, clock, last, pass, handed, merge, chunker, conv, disc, agent,
                 detector, parser>>

\* integrate returned
IntegrateReturns ==
  /\ Compacting("integrating")
  /\ ~running
  /\ StopStep([hook EXCEPT !.stage = "finished"])

\* handleStop printed and the compaction it started is over
StopDone == hook.state = "returned" /\ hook.stage \in Terminal

\* a hook that captures, run after the stop hook: handleUserPrompt with a
\* prompt, or handlePostToolUse with an edit
Capture(handler) ==
  /\ StopDone
  /\ hook.captured = "none"
  /\ LET stdin == [kind |-> "object", prompt |-> <<"hi">>, tool_name |-> <<"Edit">>,
                   tool_input |-> <<"input">>, transcript_path |-> <<>>]
         r == IF handler = "user-prompt" THEN handleUserPrompt(stdin, hook.env)
              ELSE handlePostToolUse(stdin, hook.env)
     IN StopStep([hook EXCEPT !.captured = handler, !.closed = hook.env.d, !.env.d = r.d])

InitStop ==
  /\ vault = InitialVault /\ VaultIdle /\ MergeIdle /\ ChunkerIdle /\ ConvIdle /\ DiscIdle
  /\ RestIdle
  /\ hook = [state |-> "ready"]

NextStop ==
  \/ \E variant \in StopVariants, config \in StopConfigs, outcome \in AnalyzerOutcomes,
        fault \in StopFaults, d \in StopDisks, active \in {<<>>, <<"s1">>} :
       InvokeStop(variant, config, outcome, fault, d, active)
  \/ GetActiveSession
  \/ PrintOutput
  \/ LoadConfig
  \/ ReadConversation
  \/ CallAnalyzer
  \/ WriteSummary
  \/ CleanupConversationFiles
  \/ DeleteFile
  \/ CompactReturns
  \/ Integrate
  \/ IntegrateReturns
  \/ ProcessEntity
  \/ ProcessService
  \/ ProcessKnowledge
  \/ UpdateRootIndex
  \/ \E handler \in {"user-prompt", "post-tool-use"} : Capture(handler)

SpecStop == InitStop /\ [][NextStop]_vars

-----------------------------------------------------------------------------
(* The stop hook and the session it compacts.                              *)

Logged(events, e) == \E i \in 1..Len(events) : events[i] = e

\* the stop hook found an active session, its compaction read the
\* conversation and made the summary, and both are over
StopReadAndDone ==
  StopDone /\ hook.sessionId # "" /\ Logged(hook.events, "read") /\ hook.result = "summary"

SegmentsOf(d, sessionId) ==
  [f \in conversationFiles(d, sessionId) |-> ReadSegment(d, sessionId, f)]

\* C31: once the stop hook of a session has read the session in full and is
\* over, the session is no longer the active session, and a capture hook
\* that runs later appends nothing to its segments.
C31_SessionClosedAfterStop ==
  StopReadAndDone =>
    /\ hook.env.active # <<hook.sessionId>>
    /\ hook.captured # "none" =>
         SegmentsOf(hook.env.d, hook.sessionId) = SegmentsOf(hook.closed, hook.sessionId)

Before(events, a, b) ==
  \E i, j \in 1..Len(events) : i < j /\ events[i] = a /\ events[j] = b

\* C32: handleStop prints its output without waiting for the compaction of
\* the session: no call of the analyzer, no write of summary.md and no
\* integration comes before the output.
C32_OutputBeforeCompaction ==
  hook.state # "ready" =>
    \A e \in {"analyzer", "summary", "integrate"} : ~Before(hook.events, e, "output")

\* C36: the log sent to the analyzer at a compaction is never larger than
\* the bound of a batch.
C36_LogWithinBatchBound ==
  (hook.state # "ready" /\ Logged(hook.events, "analyzer")) =>
    Bytes(Drop(hook.prompt, Len(SUMMARIZATION_PROMPT))) <= DEFAULT_MAX_CHUNK_SIZE

\* a segment the session had when the stop hook started is gone
Removed(f) ==
  /\ f \in conversationFiles(hook.start, hook.sessionId)
  /\ f \notin listDir(hook.env.d, hook.sessionId)

Exists(name) == name \in listDir(hook.env.d, hook.sessionId)

\* the archive holds a segment: its name between the marks, then its text
Holds(archive, f) ==
  IndexFrom(archive, <<"=== ">> \o f \o <<" ===", NL>> \o
                     ReadSegment(hook.start, hook.sessionId, f), 1) # 0

ArchiveHoldsAll ==
  /\ Exists(ArchiveName)
  /\ \A f \in conversationFiles(hook.start, hook.sessionId) :
       Holds(Gunzip(ReadSegment(hook.env.d, hook.sessionId, ArchiveName)), f)

Compacted == hook.state # "ready" /\ hook.sessionId # "" /\ hook.captured = "none"

AllEmpty(summary) ==
  /\ summary.entities = <<>> /\ summary.architecture = <<>>
  /\ summary.services = <<>> /\ summary.knowledge = <<>>

\* C39: when the call of the analyzer failed, compact returns a summary
\* made of the fallback text and writes summary.md; the four lists of the
\* summary are empty, and the vault stays as it was.
C39_FallbackIntegratesNothing ==
  (hook.state # "ready" /\ hook.outcome.failed /\ hook.result = "summary") =>
    /\ Exists(SummaryName)
    /\ AllEmpty(hook.summary)
    /\ vault = InitialVault

-----------------------------------------------------------------------------
(* The loop of discover over the batches: order and pacing.                *)

\* the batches whose analysis succeeded, by index (from 1)
SucceededBatches == { i \in 1..Len(disc.attempts) : ~disc.attempts[i].failed }

\* the places of the records of a category in the partial results: the
\* k-th partial result is that of the k-th batch that succeeded
Places(c) ==
  UNION { { <<k, j>> : j \in 1..Len(disc.partialSummaries[k][c]) } :
          k \in 1..Len(disc.partialSummaries) }

PlaceRecord(c, p) == disc.partialSummaries[p[1]][c][p[2]]

PlaceKey(c, p) == RecordKey(c, PlaceRecord(c, p))

\* the first place of the key of a place: lowest batch, then lowest position
FirstPlace(c, p) ==
  CHOOSE q \in Places(c) :
    /\ PlaceKey(c, q) = PlaceKey(c, p)
    /\ \A r \in Places(c) : PlaceKey(c, r) = PlaceKey(c, p) => ~Earlier(r, q)

Merged == disc.path = "analysis" /\ disc.state \in {"integrating", "processing", "done"}

\* C33: the partial results are kept in the order of the batches, those of
\* the failed batches left out, and the merged result holds for every key
\* the record of the batch of lowest index that succeeded and has the key.
C33_LowestBatchWins ==
  /\ disc.state = "analyzing" => disc.partialSummaries = Succeeded
  /\ Merged =>
       /\ disc.partialSummaries = Succeeded
       /\ \A c \in Categories : \A p \in Places(c) :
            \E n \in 1..Len(disc.pending.summary[c]) :
              /\ disc.pending.summary[c][n] = PlaceRecord(c, FirstPlace(c, p))
              /\ \A m \in 1..Len(disc.pending.summary[c]) :
                   RecordKey(c, disc.pending.summary[c][m]) = PlaceKey(c, p) => m = n

\* a run whose first batch failed and of which two later batches hold
\* different records for one key
C33_Witness ==
  /\ Merged
  /\ 1 \notin SucceededBatches
  /\ \E c \in Categories : \E p, q \in Places(c) :
       /\ p[1] < q[1]
       /\ PlaceKey(c, p) = PlaceKey(c, q)
       /\ PlaceRecord(c, p) # PlaceRecord(c, q)

\* C34: one call of the analyzer for every batch, a delay between any two
\* calls that follow each other, and no delay after the last call.
C34_PacedCalls ==
  LET t == disc.timeline
      calls == { i \in 1..Len(t) : t[i] = "call" }
  IN /\ Cardinality(calls) = Len(disc.attempts)
     /\ \A i \in calls : i + 1 \in calls => FALSE
     /\ disc.state \in {"integrating", "processing", "done"} /\ disc.attempts # <<>> =>
          Cardinality(calls) = disc.chunks /\ t[Len(t)] = "call"

-----------------------------------------------------------------------------
(* Packing: where each file of a prepared ChunkManager went.               *)

\* the number of files in the chunks before chunk k
FilesBefore(k) == Len(Concat([j \in 1..(k - 1) |-> Chunks[j].files]))

\* the chunk that holds the n-th file of the chunks
BatchAt(n) ==
  CHOOSE k \in 1..Len(Chunks) : FilesBefore(k) < n /\ n <= FilesBefore(k) + Len(Chunks[k].files)

\* the formatted sizes of the files from the first file of the chunk of
\* file n - 1 up to file n, added up
SizeWith(n) ==
  LET from == FilesBefore(BatchAt(n - 1)) + 1
      run == SubSeq(ChunkedFiles, from, n)
  IN Len(Concat([i \in 1..Len(run) |-> Formatted(run[i])]))

\* C35: the chunks hold the files that have a content, each once, in the
\* order given; no chunk is empty; and a file that fits the bound is put in
\* the chunk of the file before it exactly when that chunk is not the chunk
\* of a file over the bound and the formatted sizes, the file included,
\* add up to at most the bound.
C35_PackingKeepsOrder ==
  chunker.state = "prepared" =>
    /\ ChunkedFiles = Items
    /\ \A k \in 1..Len(Chunks) : Chunks[k].files # <<>>
    /\ \A n \in 2..Len(ChunkedFiles) :
         ~OverBound(ChunkedFiles[n]) =>
           (BatchAt(n) = BatchAt(n - 1)
              <=> (~OverBound(ChunkedFiles[n - 1]) /\ SizeWith(n) <= chunker.maxChunkSize))

\* three files that fit the bound: the second joined the chunk of the
\* first, the third did not fit
C35_Witness ==
  /\ chunker.state = "prepared"
  /\ Len(Items) = 3
  /\ Len(Chunks) = 2
  /\ Len(Chunks[1].files) = 2
  /\ \A n \in 1..3 : ~OverBound(Items[n])

-----------------------------------------------------------------------------
(* Passes of integrate on the vault of the installer in which a write of a *)
(* placement may throw: integrate rejects at that placement, the           *)
(* placements left and updateRootIndex are not run.                        *)

\* an answer of the analyzer that holds no section
RespProse == <<"Nothing to report.", NL>>

PassInputs == {RespEntity, RespPatterns, RespKnowledge, RespProse}

\* the files a placement writes or changes
ChangedBy(v, w) == { p \in DOMAIN w : p \notin DOMAIN v \/ w[p] # v[p] }

\* what a placement leaves when one of its writes threw: some of its files
\* written, the others as they were
PartlyPlaced(v, w, written) ==
  [p \in DOMAIN v \cup written |-> IF p \in written THEN w[p] ELSE v[p]]

\* processItem throws in one of its writes
PlacementFails ==
  /\ running /\ queue # <<>>
  /\ LET placed == processItem(vault, Head(queue), clock + 1)
     IN \E written \in SUBSET ChangedBy(vault, placed) :
          /\ written # ChangedBy(vault, placed)
          /\ vault' = PartlyPlaced(vault, placed, written)
  /\ clock' = clock + 1
  /\ queue' = <<>>
  /\ running' = FALSE
  /\ last' = [op |-> "failed", item |-> Head(queue), before |-> vault]
  /\ UNCHANGED <<pass, handed, merge, chunker, conv, hook, disc, agent, detector, parser>>

InitPass == vault = InitialVault /\ VaultIdle /\ MergeIdle /\ ChunkerIdle /\ OthersIdle

NextPass ==
  \/ \E r \in PassInputs : RunCompaction(r)
  \/ ProcessEntity
  \/ ProcessService
  \/ ProcessPattern
  \/ ProcessKnowledge
  \/ PlacementFails
  \/ UpdateRootIndex

SpecPass == InitPass /\ [][NextPass]_vars

Root(v) == readTextFile(v, RootIndex)

\* the root manifest from its "Last Updated" header on
RootStamp(t) == Drop(t, Len(RootWithoutStamp(t)))

\* C37: in a pass of integrate the root manifest changes in one step only,
\* the step that ends the pass after the last placement, which writes the
\* timestamp after the "Last Updated" header and leaves the text before
\* the header as it was; a pass that a placement ends by throwing and a
\* pass with nothing to place leave the root manifest as it was.
C37_RootStampedOnce ==
  [][/\ Root(vault') # Root(vault) =>
          /\ running /\ queue = <<>> /\ ~running'
          /\ last'.op = "updateRootIndex"
          /\ RootWithoutStamp(Root(vault')) = RootWithoutStamp(Root(vault))
          /\ RootStamp(Root(vault')) = <<NL, NL, Timestamp(clock')>>
     /\ (running /\ ~running' /\ last'.op # "failed") => Root(vault') # Root(pass.before)
     /\ (running /\ ~running' /\ last'.op = "failed") => Root(vault') = Root(pass.before)
     /\ (~running /\ ~running' /\ pass'.n # pass.n) => vault' = vault
    ]_vars

\* a pass of two placements or more is over, the root manifest stamped
C37_Witness ==
  /\ PassDone
  /\ last.op = "updateRootIndex"
  /\ Len(detect(pass.summary)) >= 2
  /\ Root(vault) # Root(pass.before)
  /\ RootWithoutStamp(Root(vault)) = RootWithoutStamp(RootTemplate)

-----------------------------------------------------------------------------
(* The two parsers on one text.                                            *)

EquivLines ==
  {HeaderLine("Entities"), HeaderLine("Architecture"), HeaderLine("Services"),
   HeaderLine("Knowledge"),
   FieldLine("**Name**:", <<"A">>), FieldLine("**Attributes**:", <<"x", ",", " ", "y">>),
   FieldLine("**Pattern**:", <<"P">>), FieldLine("**Purpose**:", <<"p">>),
   FieldLine("**Topic**:", <<"T">>), [kind |-> "prose", label |-> "", value |-> <<>>]}

\* texts of lines, and the answers of the analyzer of the other sections
EquivTexts ==
  { TextOf(lines) : lines \in SeqsUpTo(EquivLines, MaxParts - 1) } \cup
  CompactionInputs \cup {RespEntityLower, RespProse, <<>>}

\* CompactionEngine.parseSummary and AutoDiscover.parseResponse, each
\* called with the text
ParseBoth(text) ==
  /\ parser.state = "ready"
  /\ parser' = [state |-> "done", by |-> "both", text |-> text,
                summary |-> parseSummary(text), response |-> parseResponse(text)]
  /\ UNCHANGED <<vault, clock, last, queue, running, pass, handed, merge, chunker, conv, hook,
                 disc, agent, detector>>

NextEquiv == \E text \in EquivTexts : ParseBoth(text)

SpecEquiv == InitParse /\ [][NextEquiv]_vars

ParsedByBoth == parser.state = "done" /\ parser.by = "both"

\* C40: parseSummary and parseResponse return, for the same text, the same
\* entities, the same patterns, the same services and the same knowledge
\* items: the same records with the same fields in the same order.
C40_ParsersAgree ==
  ParsedByBoth =>
    /\ parser.summary.entities = parser.response.entities
    /\ parser.summary.architecture = parser.response.architecture
    /\ parser.summary.services = parser.response.services
    /\ parser.summary.knowledge = parser.response.knowledge

\* a text with an entity that has attributes and with a service
C40_Witness ==
  /\ ParsedByBoth
  /\ \E i \in 1..Len(parser.response.entities) : parser.response.entities[i].attributes # <<>>
  /\ parser.response.services # <<>>
  /\ parser.response.services # parser.response.entities

====
